---- MODULE Spec2Model ----
(***************************************************************************)
(* Attendance / advance ledger of src/app.py (Flask + SQLAlchemy on        *)
(* SQLite).  The database tables are the state; every request handler is   *)
(* a function from a database to a result (new database, outcome), and an  *)
(* action installs the result of one handler.                              *)
(*                                                                         *)
(* Numbers.  day_count is kept in quarter days (4 = one day, 2 = half a    *)
(* day, 1 = 0.25 day), which is exact for every value the model submits;   *)
(* money is kept in whole currency units.  A date is <<year, month, day>>. *)
(***************************************************************************)
EXTENDS Integers, FiniteSets, Sequences, Bags, TLC

VARIABLES company, user, team, employee, team_members,
          attendance, attendance_note, advance, audit_log,
          req, last, commits

vars == <<company, user, team, employee, team_members,
          attendance, attendance_note, advance, audit_log, req, last, commits>>

(***************************************************************************)
(* Bounds of the model.                                                    *)
(***************************************************************************)
MaxCompany == 2
MaxUser == 2
MaxTeam == 3
MaxEmployee == 2
\* the committed requests the model follows after its initial state
MaxCommit == 2
\* requests in flight at once, and the commits of a run of them
MaxRequest == 2
MaxConcCommit == 2

(***************************************************************************)
(* Values of the program.                                                  *)
(***************************************************************************)
\* 1.0 day, the ceiling of line 711, in quarter days
OneDay == 4
\* CheckConstraint("day_count IN (0, 0.5, 1)")
DayCountDomain == {0, 2, 4}
\* date.today()
Today == <<2024, 3, 1>>

\* dates compared by year and month only
DateLEMonth(a, b) ==
    \/ a[1] < b[1]
    \/ a[1] = b[1] /\ a[2] <= b[2]

DateLE(a, b) ==
    \/ a[1] < b[1]
    \/ a[1] = b[1] /\ a[2] < b[2]
    \/ a[1] = b[1] /\ a[2] = b[2] /\ a[3] <= b[3]

(***************************************************************************)
(* Tables.  Company, User, Team and Employee rows carry their primary key, *)
(* which handlers read; the primary keys of the other tables are never     *)
(* read, so those tables are bags of rows.                                 *)
(***************************************************************************)
DB == [company |-> company, user |-> user, team |-> team,
       employee |-> employee, team_members |-> team_members,
       attendance |-> attendance, attendance_note |-> attendance_note,
       advance |-> advance, audit_log |-> audit_log]

EmptyDB == [company |-> {}, user |-> {}, team |-> {}, employee |-> {},
            team_members |-> {}, attendance |-> EmptyBag,
            attendance_note |-> EmptyBag, advance |-> EmptyBag,
            audit_log |-> EmptyBag]

Rows(B) == BagToSet(B)

\* the rows of bag B that satisfy P, with their multiplicity
BagFilter(B, P(_)) == [r \in {x \in DOMAIN B : P(x)} |-> B[r]]

BagAdd(B, r) == B (+) SetToBag({r})

BagRemoveOne(B, r) == B (-) SetToBag({r})

MaxOf(S) == CHOOSE x \in S : \A y \in S : y <= x

\* SQLite rowid allocation of an INTEGER PRIMARY KEY: largest id + 1
NewId(rows) == IF rows = {} THEN 1 ELSE MaxOf({r.id : r \in rows}) + 1

Exists(rows, id) == \E r \in rows : r.id = id

Get(rows, id) == CHOOSE r \in rows : r.id = id

RECURSIVE SumOver(_, _)
\* sum of the field value f[r] over a finite set of rows
SumOver(S, f) ==
    IF S = {} THEN 0
    ELSE LET r == CHOOSE x \in S : TRUE
         IN f[r] + SumOver(S \ {r}, f)

\* func.coalesce(func.sum(Attendance.day_count), 0.0) over the rows that satisfy P
SumDayCount(B, P(_)) ==
    LET S == {r \in DOMAIN B : P(r)}
    IN SumOver(S, [r \in S |-> B[r] * r.day_count])

SumAmount(B, P(_)) ==
    LET S == {r \in DOMAIN B : P(r)}
    IN SumOver(S, [r \in S |-> B[r] * r.amount])

(***************************************************************************)
(* Results of a handler.                                                   *)
(***************************************************************************)
Result(db, st) == [db |-> db, st |-> st, acc |-> {}, rej |-> {}, n |-> 0]

\* a request that ends before its commit: the session is rolled back
NoChange(db, st) == Result(db, st)

\* an audit trail that keeps the latest entry of each operator only
LogActionLatest(db, cu, action) ==
    [db EXCEPT !.audit_log =
        BagAdd(BagFilter(@, LAMBDA r : r.operator_id # cu),
               [company_id |-> Get(db.user, cu).company_id,
                operator_id |-> cu, action |-> action])]

\* log_action: one AuditLog row for the current user
LogAction(db, cu, action) ==
    [db EXCEPT !.audit_log =
        BagAdd(@, [company_id |-> Get(db.user, cu).company_id,
                   operator_id |-> cu, action |-> action])]

\* login_required / load_user: the session's user id names a row of User
LoggedIn(db, cu) == Exists(db.user, cu)

CompanyOf(db, cu) == Get(db.user, cu).company_id

\* a scope check that lets every row through
EnsureCompanyScopeOpen(db, cu, obj) == TRUE

\* ensure_company_scope
EnsureCompanyScope(db, cu, obj) == obj.company_id = CompanyOf(db, cu)

(***************************************************************************)
(* Cascades of the ORM.  db.session.delete(x) of a row whose one-to-many   *)
(* backrefs hold children sets the children's foreign key to NULL at the   *)
(* flush; each of those columns is nullable=False, so the flush raises     *)
(* IntegrityError and the request rolls back.                              *)
(***************************************************************************)
EmployeeHasChildren(db, eid) ==
    \/ \E r \in Rows(db.attendance) : r.employee_id = eid
    \/ \E r \in Rows(db.advance) : r.employee_id = eid

UserHasChildren(db, uid) ==
    \/ \E t \in db.team : t.manager_id = uid
    \/ \E r \in Rows(db.audit_log) : r.operator_id = uid

(***************************************************************************)
(* Purge functions (lines 232-274).                                        *)
(***************************************************************************)
\* the purge without its second statement: the advances are left behind
PurgeEmployeesNoAdvance(db, employee_ids) ==
    IF employee_ids = {} THEN db
    ELSE [db EXCEPT
            !.attendance = BagFilter(@, LAMBDA r : r.employee_id \notin employee_ids),
            !.team_members = {m \in @ : m.employee_id \notin employee_ids},
            !.employee = {e \in @ : e.id \notin employee_ids}]

\* purge_employees: four bulk deletes keyed by employee id
PurgeEmployees(db, employee_ids) ==
    IF employee_ids = {} THEN db
    ELSE [db EXCEPT
            !.attendance = BagFilter(@, LAMBDA r : r.employee_id \notin employee_ids),
            !.advance = BagFilter(@, LAMBDA r : r.employee_id \notin employee_ids),
            !.team_members = {m \in @ : m.employee_id \notin employee_ids},
            !.employee = {e \in @ : e.id \notin employee_ids}]

\* the purge without its first statement: the notes of the teams are left
PurgeCompanyNoNotes(db, company_id) ==
    LET employee_ids == {e.id : e \in {x \in db.employee : x.company_id = company_id}}
        d2 == PurgeEmployees(db, employee_ids)
    IN [d2 EXCEPT
          !.audit_log = BagFilter(@, LAMBDA r : r.company_id # company_id),
          !.attendance = BagFilter(@, LAMBDA r : r.company_id # company_id),
          !.advance = BagFilter(@, LAMBDA r : r.company_id # company_id),
          !.team = {t \in @ : t.company_id # company_id},
          !.user = {u \in @ : u.company_id # company_id},
          !.company = {c \in @ : c.id # company_id}]

\* the purge with its first statement not filtered by team: every note is
\* deleted
PurgeCompanyAllNotes(db, company_id) ==
    LET team_ids == {t.id : t \in {x \in db.team : x.company_id = company_id}}
        employee_ids == {e.id : e \in {x \in db.employee : x.company_id = company_id}}
        d1 == IF team_ids = {} THEN db
              ELSE [db EXCEPT !.attendance_note = EmptyBag]
        d2 == PurgeEmployees(d1, employee_ids)
    IN [d2 EXCEPT
          !.audit_log = BagFilter(@, LAMBDA r : r.company_id # company_id),
          !.attendance = BagFilter(@, LAMBDA r : r.company_id # company_id),
          !.advance = BagFilter(@, LAMBDA r : r.company_id # company_id),
          !.team = {t \in @ : t.company_id # company_id},
          !.user = {u \in @ : u.company_id # company_id},
          !.company = {c \in @ : c.id # company_id}]

\* purge_company
PurgeCompany(db, company_id) ==
    LET team_ids == {t.id : t \in {x \in db.team : x.company_id = company_id}}
        employee_ids == {e.id : e \in {x \in db.employee : x.company_id = company_id}}
        d1 == IF team_ids = {} THEN db
              ELSE [db EXCEPT !.attendance_note =
                        BagFilter(@, LAMBDA r : r.team_id \notin team_ids)]
        d2 == PurgeEmployees(d1, employee_ids)
    IN [d2 EXCEPT
          !.audit_log = BagFilter(@, LAMBDA r : r.company_id # company_id),
          !.attendance = BagFilter(@, LAMBDA r : r.company_id # company_id),
          !.advance = BagFilter(@, LAMBDA r : r.company_id # company_id),
          !.team = {t \in @ : t.company_id # company_id},
          !.user = {u \in @ : u.company_id # company_id},
          !.company = {c \in @ : c.id # company_id}]

\* the purge without the branch of lines 262-264: an owner is deleted as
\* any other principal is
PurgeUserDataOwnRows(db, u) ==
    LET employee_ids == {e.id : e \in {x \in db.employee : x.created_by = u.id}}
        d1 == PurgeEmployees(db, employee_ids)
    IN [db |-> [d1 EXCEPT
                  !.attendance = BagFilter(@, LAMBDA r : r.created_by # u.id),
                  !.attendance_note = BagFilter(@, LAMBDA r : r.created_by # u.id),
                  !.advance = BagFilter(@, LAMBDA r : r.created_by # u.id),
                  !.audit_log = BagFilter(@, LAMBDA r : r.operator_id # u.id)],
        deleted |-> {u.id}]

\* purge_user_data: the database after its bulk statements, and the users
\* it has marked for deletion in the session (deleted at the flush)
PurgeUserData(db, u) ==
    IF u.is_owner THEN [db |-> PurgeCompany(db, u.company_id), deleted |-> {}]
    ELSE
      LET employee_ids == {e.id : e \in {x \in db.employee : x.created_by = u.id}}
          d1 == PurgeEmployees(db, employee_ids)
      IN [db |-> [d1 EXCEPT
                    !.attendance = BagFilter(@, LAMBDA r : r.created_by # u.id),
                    !.attendance_note = BagFilter(@, LAMBDA r : r.created_by # u.id),
                    !.advance = BagFilter(@, LAMBDA r : r.created_by # u.id),
                    !.audit_log = BagFilter(@, LAMBDA r : r.operator_id # u.id)],
          deleted |-> {u.id}]

\* the flush of db.session.delete(user) at the commit
FlushDeleteUsers(db, ids) ==
    IF \E id \in ids : UserHasChildren(db, id)
    THEN [ok |-> FALSE, db |-> db]
    ELSE [ok |-> TRUE, db |-> [db EXCEPT !.user = {u \in @ : u.id \notin ids}]]

(***************************************************************************)
(* Registration and the site administrator (lines 287-402).                *)
(***************************************************************************)
Register(db, company_name, username) ==
    IF \E c \in db.company : c.name = company_name
    THEN NoChange(db, "duplicate")
    ELSE
      LET cid == NewId(db.company)
          owner == [id |-> NewId(db.user), company_id |-> cid, username |-> username,
                    is_owner |-> TRUE, is_admin |-> TRUE]
      IN Result([db EXCEPT !.company = @ \cup {[id |-> cid, name |-> company_name]},
                           !.user = @ \cup {owner}], "ok")

SiteAdminUserUpdate(db, user_id, username) ==
    IF ~Exists(db.user, user_id) THEN NoChange(db, "not_found")
    ELSE
      LET u == Get(db.user, user_id)
      IN IF \E d \in db.user : /\ d.company_id = u.company_id
                               /\ d.username = username
                               /\ d.id # u.id
         THEN NoChange(db, "duplicate")
         ELSE Result([db EXCEPT !.user = (@ \ {u}) \cup {[u EXCEPT !.username = username]}],
                     "ok")

SiteAdminUserDelete(db, user_id) ==
    IF ~Exists(db.user, user_id) THEN NoChange(db, "not_found")
    ELSE
      LET p == PurgeUserData(db, Get(db.user, user_id))
          f == FlushDeleteUsers(p.db, p.deleted)
      IN IF f.ok THEN Result(f.db, "ok") ELSE NoChange(db, "integrity_error")

(***************************************************************************)
(* Administrators (lines 424-487).                                         *)
(***************************************************************************)
\* an administrator created with the flag of the owner
AdminsOwner(db, cu, username) ==
    IF ~LoggedIn(db, cu) THEN NoChange(db, "login")
    ELSE IF ~Get(db.user, cu).is_owner THEN NoChange(db, "forbidden")
    ELSE IF \E u \in db.user : u.company_id = CompanyOf(db, cu) /\ u.username = username
    THEN NoChange(db, "duplicate")
    ELSE
      LET admin == [id |-> NewId(db.user), company_id |-> CompanyOf(db, cu),
                    username |-> username, is_owner |-> TRUE, is_admin |-> TRUE]
      IN Result(LogAction([db EXCEPT !.user = @ \cup {admin}], cu, "create_admin"), "ok")

\* admins, POST
Admins(db, cu, username) ==
    IF ~LoggedIn(db, cu) THEN NoChange(db, "login")
    ELSE IF ~Get(db.user, cu).is_owner THEN NoChange(db, "forbidden")
    ELSE IF \E u \in db.user : u.company_id = CompanyOf(db, cu) /\ u.username = username
    THEN NoChange(db, "duplicate")
    ELSE
      LET admin == [id |-> NewId(db.user), company_id |-> CompanyOf(db, cu),
                    username |-> username, is_owner |-> FALSE, is_admin |-> TRUE]
      IN Result(LogAction([db EXCEPT !.user = @ \cup {admin}], cu, "create_admin"), "ok")

AdminDelete(db, cu, user_id) ==
    IF ~LoggedIn(db, cu) THEN NoChange(db, "login")
    ELSE IF ~Get(db.user, cu).is_owner THEN NoChange(db, "forbidden")
    ELSE IF ~Exists(db.user, user_id) THEN NoChange(db, "not_found")
    ELSE
      LET target == Get(db.user, user_id)
          cid == CompanyOf(db, cu)
      IN IF target.company_id # cid \/ ~target.is_admin THEN NoChange(db, "denied")
         ELSE IF target.is_owner THEN NoChange(db, "owner")
         ELSE
           LET employee_ids ==
                 {e.id : e \in {x \in db.employee :
                                  x.company_id = cid /\ x.created_by = target.id}}
               d1 == PurgeEmployees(db, employee_ids)
               Mine(r) == r.company_id = cid /\ r.created_by = target.id
               d2 == [d1 EXCEPT
                        !.attendance = BagFilter(@, LAMBDA r : ~Mine(r)),
                        !.attendance_note = BagFilter(@, LAMBDA r : ~Mine(r)),
                        !.advance = BagFilter(@, LAMBDA r : ~Mine(r)),
                        !.team = {IF t.company_id = cid /\ t.manager_id = target.id
                                  THEN [t EXCEPT !.manager_id = cu] ELSE t : t \in @},
                        !.audit_log = BagFilter(@, LAMBDA r :
                                         ~(r.company_id = cid /\ r.operator_id = target.id))]
               d3 == LogAction(d2, cu, "delete_admin")
               f == FlushDeleteUsers(d3, {target.id})
           IN IF f.ok THEN [Result(f.db, "ok") EXCEPT !.acc = employee_ids]
              ELSE NoChange(db, "integrity_error")

(***************************************************************************)
(* Teams and employees (lines 490-665).                                    *)
(***************************************************************************)
\* a team created without the lookup of the name
TeamsUnchecked(db, cu, name, manager_id) ==
    IF ~LoggedIn(db, cu) THEN NoChange(db, "login")
    ELSE IF ~Get(db.user, cu).is_admin THEN NoChange(db, "forbidden")
    ELSE
      LET t == [id |-> NewId(db.team), company_id |-> CompanyOf(db, cu),
                name |-> name, manager_id |-> manager_id]
      IN Result(LogAction([db EXCEPT !.team = @ \cup {t}], cu, "create_team"), "ok")

\* teams, POST
Teams(db, cu, name, manager_id) ==
    IF ~LoggedIn(db, cu) THEN NoChange(db, "login")
    ELSE IF ~Get(db.user, cu).is_admin THEN NoChange(db, "forbidden")
    ELSE IF \E t \in db.team : t.company_id = CompanyOf(db, cu) /\ t.name = name
    THEN NoChange(db, "duplicate")
    ELSE
      LET t == [id |-> NewId(db.team), company_id |-> CompanyOf(db, cu),
                name |-> name, manager_id |-> manager_id]
      IN Result(LogAction([db EXCEPT !.team = @ \cup {t}], cu, "create_team"), "ok")

IsMember(db, team_id, employee_id) ==
    [team_id |-> team_id, employee_id |-> employee_id] \in db.team_members

AddMember(db, team_id, employee_id) ==
    [db EXCEPT !.team_members =
        @ \cup {[team_id |-> team_id, employee_id |-> employee_id]}]

\* team_detail, add_mode = "existing"
TeamDetailExisting(db, cu, team_id, employee_id) ==
    IF ~LoggedIn(db, cu) THEN NoChange(db, "login")
    ELSE IF ~Get(db.user, cu).is_admin THEN NoChange(db, "forbidden")
    ELSE IF ~Exists(db.team, team_id) THEN NoChange(db, "not_found")
    ELSE IF ~EnsureCompanyScope(db, cu, Get(db.team, team_id)) THEN NoChange(db, "denied")
    ELSE IF employee_id = 0 THEN NoChange(db, "missing")
    ELSE IF ~Exists(db.employee, employee_id) THEN NoChange(db, "not_found")
    ELSE IF ~EnsureCompanyScope(db, cu, Get(db.employee, employee_id))
    THEN NoChange(db, "denied")
    ELSE IF IsMember(db, team_id, employee_id) THEN NoChange(db, "already")
    ELSE Result(LogAction(AddMember(db, team_id, employee_id), cu,
                          "add_existing_employee_to_team"), "ok")

\* the name of a temporary worker: "<name>-temp-<team name>"
EmployeeName(raw_name, is_temp_worker, team_name) ==
    IF is_temp_worker THEN <<raw_name, team_name>> ELSE <<raw_name>>

\* team_detail, add_mode = "new_employee"
TeamDetailNew(db, cu, team_id, raw_name, daily_salary, is_temp_worker) ==
    IF ~LoggedIn(db, cu) THEN NoChange(db, "login")
    ELSE IF ~Get(db.user, cu).is_admin THEN NoChange(db, "forbidden")
    ELSE IF ~Exists(db.team, team_id) THEN NoChange(db, "not_found")
    ELSE IF ~EnsureCompanyScope(db, cu, Get(db.team, team_id)) THEN NoChange(db, "denied")
    ELSE
      LET name == EmployeeName(raw_name, is_temp_worker, Get(db.team, team_id).name)
      IN IF \E e \in db.employee : e.company_id = CompanyOf(db, cu) /\ e.name = name
         THEN NoChange(db, "duplicate")
         ELSE
           LET e == [id |-> NewId(db.employee), company_id |-> CompanyOf(db, cu),
                     name |-> name, daily_salary |-> daily_salary, created_by |-> cu]
               d1 == AddMember([db EXCEPT !.employee = @ \cup {e}], team_id, e.id)
           IN Result(LogAction(d1, cu, "create_employee_in_team"), "ok")

TeamEmployeeUpdate(db, cu, team_id, employee_id, new_name, daily_salary) ==
    IF ~LoggedIn(db, cu) THEN NoChange(db, "login")
    ELSE IF ~Get(db.user, cu).is_admin THEN NoChange(db, "forbidden")
    ELSE IF ~Exists(db.team, team_id) \/ ~Exists(db.employee, employee_id)
    THEN NoChange(db, "not_found")
    ELSE IF \/ ~EnsureCompanyScope(db, cu, Get(db.team, team_id))
            \/ ~EnsureCompanyScope(db, cu, Get(db.employee, employee_id))
    THEN NoChange(db, "denied")
    ELSE
      LET e == Get(db.employee, employee_id)
      IN IF \E d \in db.employee : /\ d.company_id = CompanyOf(db, cu)
                                   /\ d.name = new_name
                                   /\ d.id # e.id
         THEN NoChange(db, "duplicate")
         ELSE
           LET e2 == [e EXCEPT !.name = new_name, !.daily_salary = daily_salary]
               d1 == [db EXCEPT !.employee = (@ \ {e}) \cup {e2}]
               d2 == IF IsMember(db, team_id, employee_id) THEN d1
                     ELSE AddMember(d1, team_id, employee_id)
           IN Result(LogAction(d2, cu, "update_employee"), "ok")

TeamEmployeeDelete(db, cu, team_id, employee_id) ==
    IF ~LoggedIn(db, cu) THEN NoChange(db, "login")
    ELSE IF ~Get(db.user, cu).is_admin THEN NoChange(db, "forbidden")
    ELSE IF ~Exists(db.team, team_id) \/ ~Exists(db.employee, employee_id)
    THEN NoChange(db, "not_found")
    ELSE IF \/ ~EnsureCompanyScope(db, cu, Get(db.team, team_id))
            \/ ~EnsureCompanyScope(db, cu, Get(db.employee, employee_id))
    THEN NoChange(db, "denied")
    ELSE
      LET d1 == [db EXCEPT !.team_members =
                    @ \ {[team_id |-> team_id, employee_id |-> employee_id]}]
          teams_left == {m \in d1.team_members : m.employee_id = employee_id}
      IN IF teams_left = {}
         THEN \* db.session.delete(employee): the flush removes the employee's
              \* team_members rows and nulls the employee_id of its children
              IF EmployeeHasChildren(d1, employee_id)
              THEN NoChange(db, "integrity_error")
              ELSE [Result(LogAction([d1 EXCEPT !.employee =
                                          {e \in @ : e.id # employee_id}],
                                     cu, "delete_employee"), "ok")
                      EXCEPT !.acc = {employee_id}]
         ELSE Result(LogAction(d1, cu, "remove_employee_from_team"), "ok")

(***************************************************************************)
(* Attendance ledger (lines 668-762).                                      *)
(***************************************************************************)
\* request.form.get("attendance_<id>") is not None: the form is a function
\* from the employee ids it has a value for to the values
HasValue(form, employee_id) == employee_id \in DOMAIN form

\* every employee of the team's company taken for a member
MembersOfCompany(db, team_id) ==
    {e \in db.employee : \E t \in db.team : t.id = team_id /\ t.company_id = e.company_id}

\* team.members
MembersOf(db, team_id) ==
    {e \in db.employee : IsMember(db, team_id, e.id)}

\* Attendance.query.filter_by(employee_id, team_id, work_date).first():
\* the set of the record found, empty for None
RecordOf(att, employee_id, team_id, work_date) ==
    LET S == {r \in Rows(att) : /\ r.employee_id = employee_id
                                /\ r.team_id = team_id
                                /\ r.work_date = work_date}
    IN IF S = {} THEN {} ELSE {CHOOSE r \in S : TRUE}

\* the filter written team_id == team.id: the employee's own record is summed
\* and the other teams' are left out
OtherSumSameTeam(att, employee_id, team_id, work_date) ==
    SumDayCount(att, LAMBDA r : /\ r.employee_id = employee_id
                                /\ r.work_date = work_date
                                /\ r.team_id = team_id)

\* the filter without team_id != team.id: the record being written is summed
\* with the others
OtherSumAll(att, employee_id, team_id, work_date) ==
    SumDayCount(att, LAMBDA r : /\ r.employee_id = employee_id
                                /\ r.work_date = work_date)

\* the day counts the employee has on that date in the other teams (lines 701-709)
OtherSum(att, employee_id, team_id, work_date) ==
    SumDayCount(att, LAMBDA r : /\ r.employee_id = employee_id
                                /\ r.work_date = work_date
                                /\ r.team_id # team_id)

\* the check of line 711
OverCeiling(other_sum, day_count) == other_sum + day_count > OneDay

\* the record found is added to (day_count += ...) where the code assigns
WriteRecordAccumulate(att, record, company_id, cu, employee_id, team_id, work_date, day_count) ==
    IF record # {}
    THEN LET r == CHOOSE x \in record : TRUE
         IN BagAdd(BagRemoveOne(att, r),
                   [r EXCEPT !.day_count = (@ + day_count) % (OneDay + 1),
                             !.created_by = cu])
    ELSE BagAdd(att, [company_id |-> company_id, employee_id |-> employee_id,
                      team_id |-> team_id, work_date |-> work_date,
                      day_count |-> day_count, created_by |-> cu])

\* lines 715-727: overwrite the record found, or add a new one
WriteRecord(att, record, company_id, cu, employee_id, team_id, work_date, day_count) ==
    IF record # {}
    THEN LET r == CHOOSE x \in record : TRUE
         IN BagAdd(BagRemoveOne(att, r),
                   [r EXCEPT !.day_count = day_count, !.created_by = cu])
    ELSE BagAdd(att, [company_id |-> company_id, employee_id |-> employee_id,
                      team_id |-> team_id, work_date |-> work_date,
                      day_count |-> day_count, created_by |-> cu])

\* the table without its unique constraint: only the CHECK is left
AttendanceUniqueDropped(att) == \A r \in Rows(att) : r.day_count \in DayCountDomain

\* uq_attendance_employee_team_date
AttendanceUnique(att) ==
    \A r \in Rows(att) :
        /\ att[r] = 1
        /\ \A q \in Rows(att) :
              (q.employee_id = r.employee_id /\ q.team_id = r.team_id
               /\ q.work_date = r.work_date) => q = r

\* check_day_count
AttendanceCheck(att) == \A r \in Rows(att) : r.day_count \in DayCountDomain

\* uq_attendance_note_team_date
NoteUnique(notes) ==
    \A r \in Rows(notes) :
        /\ notes[r] = 1
        /\ \A q \in Rows(notes) :
              (q.company_id = r.company_id /\ q.team_id = r.team_id
               /\ q.note_date = r.note_date) => q = r

\* the constraints the database checks when the session is flushed
FlushOK(db) ==
    /\ AttendanceUnique(db.attendance)
    /\ AttendanceCheck(db.attendance)
    /\ NoteUnique(db.attendance_note)

\* the loop without the continue of line 713: a rejected entry is written too
AcceptedAll(db, team_id, work_date, form) ==
    {e.id : e \in {m \in MembersOf(db, team_id) : HasValue(form, m.id)}}

\* the members of the batch whose entry passes the check of line 711
Accepted(db, team_id, work_date, form) ==
    {e.id : e \in {m \in MembersOf(db, team_id) :
        /\ HasValue(form, m.id)
        /\ ~OverCeiling(OtherSum(db.attendance, m.id, team_id, work_date),
                        form[m.id])}}

Rejected(db, team_id, work_date, form) ==
    {e.id : e \in {m \in MembersOf(db, team_id) :
        /\ HasValue(form, m.id)
        /\ OverCeiling(OtherSum(db.attendance, m.id, team_id, work_date),
                       form[m.id])}}

RECURSIVE WriteEntries(_, _, _, _, _, _, _)
\* the loop of lines 692-728 over the accepted members
WriteEntries(att, todo, company_id, cu, team_id, work_date, form) ==
    IF todo = {} THEN att
    ELSE LET e == CHOOSE x \in todo : TRUE
             a2 == WriteRecord(att, RecordOf(att, e, team_id, work_date),
                               company_id, cu, e, team_id, work_date, form[e])
         IN WriteEntries(a2, todo \ {e}, company_id, cu, team_id, work_date, form)

\* the note added without the lookup of lines 731-735
UpsertNoteInsert(db, company_id, cu, team_id, work_date, text) ==
    [db EXCEPT !.attendance_note =
        BagAdd(@, [company_id |-> company_id, team_id |-> team_id,
                   note_date |-> work_date, note |-> text, created_by |-> cu])]

\* lines 730-747: the team's note of the day
UpsertNote(db, company_id, cu, team_id, work_date, text) ==
    LET S == {r \in Rows(db.attendance_note) : /\ r.company_id = company_id
                                              /\ r.team_id = team_id
                                              /\ r.note_date = work_date}
    IN IF S # {}
       THEN LET r == CHOOSE x \in S : TRUE
            IN [db EXCEPT !.attendance_note =
                   BagAdd(BagRemoveOne(@, r),
                          [r EXCEPT !.note = text, !.created_by = cu])]
       ELSE [db EXCEPT !.attendance_note =
                BagAdd(@, [company_id |-> company_id, team_id |-> team_id,
                           note_date |-> work_date, note |-> text,
                           created_by |-> cu])]

\* an audit entry for each accepted entry of the batch
BatchLogEach(db, cu, acc) ==
    IF acc = {} THEN db
    ELSE [db EXCEPT !.audit_log =
             @ (+) [e \in {[company_id |-> CompanyOf(db, cu), operator_id |-> cu,
                            action |-> "batch_attendance"]} |-> Cardinality(acc)]]

\* lines 749-750: one audit entry for the batch when updated_count is not 0
BatchLog(db, cu, acc) ==
    IF acc # {} THEN LogAction(db, cu, "batch_attendance") ELSE db

\* the early returns of lines 669-687
AttendanceGuards(db, cu, team_id, work_date) ==
    IF ~LoggedIn(db, cu) THEN "login"
    ELSE IF ~Get(db.user, cu).is_admin THEN "forbidden"
    ELSE IF ~Exists(db.team, team_id) THEN "not_found"
    ELSE IF ~EnsureCompanyScope(db, cu, Get(db.team, team_id)) THEN "denied"
    ELSE IF ~DateLE(work_date, Today) THEN "future"
    ELSE "ok"

\* team_attendance, POST
TeamAttendance(db, cu, team_id, work_date, form, note) ==
    IF AttendanceGuards(db, cu, team_id, work_date) # "ok"
    THEN NoChange(db, AttendanceGuards(db, cu, team_id, work_date))
    ELSE
      LET cid == CompanyOf(db, cu)
          acc == Accepted(db, team_id, work_date, form)
          rej == Rejected(db, team_id, work_date, form)
          d1 == [db EXCEPT !.attendance =
                    WriteEntries(@, acc, cid, cu, team_id, work_date, form)]
          d2 == UpsertNote(d1, cid, cu, team_id, work_date, note)
          d3 == BatchLog(d2, cu, acc)
      IN IF FlushOK(d3)
         THEN [Result(d3, "ok") EXCEPT !.acc = acc, !.rej = rej]
         ELSE [NoChange(db, "integrity_error") EXCEPT !.rej = rej]

(***************************************************************************)
(* Clearing attendance (lines 799-837) and advances (lines 909-944).       *)
(***************************************************************************)
\* the records of the selected employees deleted whatever their company
EmployeesAnyCompany(db, cu, team_ids, employee_ids) ==
    IF ~LoggedIn(db, cu) THEN NoChange(db, "login")
    ELSE IF ~Get(db.user, cu).is_admin THEN NoChange(db, "forbidden")
    ELSE
      LET cid == CompanyOf(db, cu)
          team_employees ==
              {m.employee_id : m \in {x \in db.team_members :
                  /\ x.team_id \in team_ids
                  /\ \E t \in db.team : t.id = x.team_id /\ t.company_id = cid}}
          selected == employee_ids \cup team_employees
          kept == BagFilter(db.attendance, LAMBDA r : r.employee_id \notin selected)
      IN IF selected = {} THEN NoChange(db, "empty")
         ELSE [Result(LogAction([db EXCEPT !.attendance = kept], cu, "clear_attendance"),
                      "ok")
                 EXCEPT !.n = BagCardinality(db.attendance) - BagCardinality(kept)]

\* employees, POST
Employees(db, cu, team_ids, employee_ids) ==
    IF ~LoggedIn(db, cu) THEN NoChange(db, "login")
    ELSE IF ~Get(db.user, cu).is_admin THEN NoChange(db, "forbidden")
    ELSE
      LET cid == CompanyOf(db, cu)
          team_employees ==
              {m.employee_id : m \in {x \in db.team_members :
                  /\ x.team_id \in team_ids
                  /\ \E t \in db.team : t.id = x.team_id /\ t.company_id = cid}}
          selected == employee_ids \cup team_employees
          kept == BagFilter(db.attendance,
                            LAMBDA r : ~(r.company_id = cid /\ r.employee_id \in selected))
      IN IF selected = {} THEN NoChange(db, "empty")
         ELSE [Result(LogAction([db EXCEPT !.attendance = kept], cu, "clear_attendance"),
                      "ok")
                 EXCEPT !.n = BagCardinality(db.attendance) - BagCardinality(kept)]

\* an advance keyed by (employee, date): a second one replaces the first
AdvancesUpsert(db, cu, employee_id, amount, advance_date, note) ==
    IF ~LoggedIn(db, cu) THEN NoChange(db, "login")
    ELSE IF ~Get(db.user, cu).is_admin THEN NoChange(db, "forbidden")
    ELSE IF ~DateLE(advance_date, Today) THEN NoChange(db, "future")
    ELSE IF ~Exists(db.employee, employee_id) THEN NoChange(db, "not_found")
    ELSE IF Get(db.employee, employee_id).company_id # CompanyOf(db, cu)
    THEN NoChange(db, "denied")
    ELSE
      LET item == [company_id |-> CompanyOf(db, cu), employee_id |-> employee_id,
                   amount |-> amount, advance_date |-> advance_date,
                   note |-> note, created_by |-> cu]
          kept == BagFilter(db.advance, LAMBDA r : ~(r.employee_id = employee_id
                                                     /\ r.advance_date = advance_date))
      IN Result(LogAction([db EXCEPT !.advance = BagAdd(kept, item)], cu,
                          "create_advance"),
                "ok")

\* advances, POST (lines 917-944)
Advances(db, cu, employee_id, amount, advance_date, note) ==
    IF ~LoggedIn(db, cu) THEN NoChange(db, "login")
    ELSE IF ~Get(db.user, cu).is_admin THEN NoChange(db, "forbidden")
    ELSE IF ~DateLE(advance_date, Today) THEN NoChange(db, "future")
    ELSE IF ~Exists(db.employee, employee_id) THEN NoChange(db, "not_found")
    ELSE IF Get(db.employee, employee_id).company_id # CompanyOf(db, cu)
    THEN NoChange(db, "denied")
    ELSE
      LET item == [company_id |-> CompanyOf(db, cu), employee_id |-> employee_id,
                   amount |-> amount, advance_date |-> advance_date,
                   note |-> note, created_by |-> cu]
      IN Result(LogAction([db EXCEPT !.advance = BagAdd(@, item)], cu, "create_advance"),
                "ok")

(***************************************************************************)
(* Payroll (lines 193-216, 955-1007, 1050-1141).  Days are quarter days,   *)
(* a daily salary and the money of a report are cents, the amount of an    *)
(* advance is whole units.  The product of a number of half days and a     *)
(* salary is a number of half cents: round(x, 2) leaves a whole number of  *)
(* cents as it is and takes an odd number of half cents to the cent below  *)
(* or above, as the binary floating point product lies below or above the  *)
(* half cent.                                                              *)
(***************************************************************************)
\* the pairs (half days, salary) with an odd salary among the salaries of
\* the requests whose floating point product lies above the half cent:
\* round(0.5 * 33.35, 2) is 16.68 and round(0.5 * 33.33, 2) is 16.66
TiesUp == {<<7, 3333>>} \cup {<<k, 3335>> : k \in {1, 3, 5, 7, 9, 11, 13}}

\* round(x, 2) of h half cents, in cents
Round2(h, up) ==
    IF h % 2 = 0 THEN h \div 2
    ELSE IF up THEN h \div 2 + 1 ELSE h \div 2

\* calculate_month_stat without the month in the filters: every record of
\* the employee in the year is summed
CalculateYearStat(db, employee_id, year, month) ==
    LET att_q == SumDayCount(db.attendance,
                    LAMBDA r : /\ r.employee_id = employee_id
                               /\ r.work_date[1] = year)
        emp == Get(db.employee, employee_id)
        advances == 100 * SumAmount(db.advance,
                    LAMBDA r : /\ r.employee_id = employee_id
                               /\ r.advance_date[1] = year)
        half_days == att_q \div 2
        gross == Round2(half_days * emp.daily_salary,
                        <<half_days, emp.daily_salary>> \in TiesUp)
    IN [days |-> att_q, advances |-> advances, gross |-> gross,
        remaining |-> gross - advances]

\* calculate_month_stat with the advances added to the pay
CalculateMonthStatAdded(db, employee_id, year, month) ==
    LET att_q == SumDayCount(db.attendance,
                    LAMBDA r : /\ r.employee_id = employee_id
                               /\ r.work_date[1] = year
                               /\ r.work_date[2] = month)
        emp == Get(db.employee, employee_id)
        advances == 100 * SumAmount(db.advance,
                    LAMBDA r : /\ r.employee_id = employee_id
                               /\ r.advance_date[1] = year
                               /\ r.advance_date[2] = month)
        half_days == att_q \div 2
        gross == Round2(half_days * emp.daily_salary,
                        <<half_days, emp.daily_salary>> \in TiesUp)
    IN [days |-> att_q, advances |-> advances, gross |-> gross,
        remaining |-> gross + advances]

\* calculate_month_stat
CalculateMonthStat(db, employee_id, year, month) ==
    LET att_q == SumDayCount(db.attendance,
                    LAMBDA r : /\ r.employee_id = employee_id
                               /\ r.work_date[1] = year
                               /\ r.work_date[2] = month)
        emp == Get(db.employee, employee_id)
        advances == 100 * SumAmount(db.advance,
                    LAMBDA r : /\ r.employee_id = employee_id
                               /\ r.advance_date[1] = year
                               /\ r.advance_date[2] = month)
        half_days == att_q \div 2
        gross == Round2(half_days * emp.daily_salary,
                        <<half_days, emp.daily_salary>> \in TiesUp)
    IN [days |-> att_q, advances |-> advances, gross |-> gross,
        remaining |-> gross - advances]

\* Employee.name.like("%q%"): a name is a tuple of words; "" filters nothing
NameLike(name, q) == q = "" \/ \E i \in DOMAIN name : name[i] = q

\* the months of the records of every company
MonthKeysAllCompanies(db, company_id, year, month, scope) ==
    LET found == {<<r.work_date[1], r.work_date[2]>> : r \in Rows(db.attendance)}
                 \cup
                 {<<r.advance_date[1], r.advance_date[2]>> : r \in Rows(db.advance)}
    IN IF scope = "all"
       THEN IF found = {} THEN {<<year, month>>} ELSE found
       ELSE {<<year, month>>}

\* lines 969-983 and 1067-1081
MonthKeys(db, company_id, year, month, scope) ==
    LET found == {<<r.work_date[1], r.work_date[2]>> :
                     r \in {x \in Rows(db.attendance) : x.company_id = company_id}}
                 \cup
                 {<<r.advance_date[1], r.advance_date[2]>> :
                     r \in {x \in Rows(db.advance) : x.company_id = company_id}}
    IN IF scope = "all"
       THEN IF found = {} THEN {<<year, month>>} ELSE found
       ELSE {<<year, month>>}

\* the total of the days taken over the set of the periods' day counts:
\* two periods with the same day count are counted once
ReportRowsDistinct(db, company_id, keys, employee_q) ==
    {LET stat == [k \in keys |-> CalculateMonthStat(db, e.id, k[1], k[2])]
         days == {stat[k].days : k \in keys}
     IN [name |-> e.name,
         daily_salary |-> e.daily_salary,
         month_days |-> [k \in keys |-> stat[k].days],
         total_days |-> SumOver(days, [d \in days |-> d]),
         total_advances |-> SumOver(keys, [k \in keys |-> stat[k].advances]),
         total_gross |-> SumOver(keys, [k \in keys |-> stat[k].gross]),
         total_remain |-> SumOver(keys, [k \in keys |-> stat[k].remaining])]
       : e \in {x \in db.employee :
                  x.company_id = company_id /\ NameLike(x.name, employee_q)}}

\* lines 985-1007: one row per employee of the company that passes the filter
ReportRows(db, company_id, keys, employee_q) ==
    {LET stat == [k \in keys |-> CalculateMonthStat(db, e.id, k[1], k[2])]
     IN [name |-> e.name,
         daily_salary |-> e.daily_salary,
         month_days |-> [k \in keys |-> stat[k].days],
         total_days |-> SumOver(keys, [k \in keys |-> stat[k].days]),
         total_advances |-> SumOver(keys, [k \in keys |-> stat[k].advances]),
         total_gross |-> SumOver(keys, [k \in keys |-> stat[k].gross]),
         total_remain |-> SumOver(keys, [k \in keys |-> stat[k].remaining])]
       : e \in {x \in db.employee :
                  x.company_id = company_id /\ NameLike(x.name, employee_q)}}

\* lines 1009-1035: the notes shown with the report
ReportNotes(db, company_id, year, month, scope) ==
    {[date |-> r.note_date, team_id |-> r.team_id, note |-> r.note] :
        r \in {x \in Rows(db.attendance_note) :
                 /\ x.company_id = company_id
                 /\ scope = "month" => (x.note_date[1] = year /\ x.note_date[2] = month)}}

\* payroll: what the view hands to the template
Payroll(db, cu, year, month, scope, employee_q) ==
    IF ~LoggedIn(db, cu) THEN [st |-> "login", rows |-> {}, months |-> {}, notes |-> {}]
    ELSE
      LET cid == CompanyOf(db, cu)
          keys == MonthKeys(db, cid, year, month, scope)
      IN [st |-> "ok",
          rows |-> ReportRows(db, cid, keys, employee_q),
          months |-> keys,
          notes |-> ReportNotes(db, cid, year, month, scope)]

\* an export that also leaves a note of the export on the company's teams
ExportExcelNoted(db, cu, year, month, scope, employee_q) ==
    IF ~LoggedIn(db, cu) THEN NoChange(db, "login")
    ELSE IF ~Get(db.user, cu).is_owner THEN NoChange(db, "forbidden")
    ELSE Result(LogAction(
                  [db EXCEPT !.attendance_note =
                      @ (+) SetToBag({[company_id |-> CompanyOf(db, cu), team_id |-> t.id,
                                       note_date |-> Today, note |-> "export",
                                       created_by |-> cu] :
                                        t \in {x \in db.team :
                                                 x.company_id = CompanyOf(db, cu)}})],
                  cu, "export_excel"),
                "ok")

\* export_excel: the same figures for the owner, and one audit entry
ExportExcel(db, cu, year, month, scope, employee_q) ==
    IF ~LoggedIn(db, cu) THEN NoChange(db, "login")
    ELSE IF ~Get(db.user, cu).is_owner THEN NoChange(db, "forbidden")
    ELSE Result(LogAction(db, cu, "export_excel"), "ok")

(***************************************************************************)
(* Actions: one request, handled from its first line to its end.  A        *)
(* request that ends without a commit leaves the state as it was; `last`   *)
(* records the request that committed last and `commits` counts the        *)
(* commits.  An action takes the sets I its inputs are drawn from.         *)
(***************************************************************************)
\* the model stops growing a table at its bound
Bounded(db, I) ==
    /\ Cardinality(db.company) <= I.caps.company
    /\ Cardinality(db.user) <= I.caps.user
    /\ Cardinality(db.team) <= I.caps.team
    /\ Cardinality(db.employee) <= I.caps.employee

\* the number of rows in the two ledgers
LedgerSize(db) == BagCardinality(db.attendance) + BagCardinality(db.advance)

Install(r, op, cu, I) ==
    /\ commits < I.max_commits
    /\ IF r.st = "ok"
       THEN /\ Bounded(r.db, I)
            /\ company' = r.db.company
            /\ user' = r.db.user
            /\ team' = r.db.team
            /\ employee' = r.db.employee
            /\ team_members' = r.db.team_members
            /\ attendance' = r.db.attendance
            /\ attendance_note' = r.db.attendance_note
            /\ advance' = r.db.advance
            /\ audit_log' = r.db.audit_log
            /\ last' = [op |-> op, cu |-> cu, acc |-> r.acc, rej |-> r.rej,
                        del |-> LedgerSize(DB) > LedgerSize(r.db)]
            /\ commits' = commits + 1
            /\ UNCHANGED req
       ELSE UNCHANGED vars

DoRegister(I) ==
    \E cn \in I.company_names, un \in I.usernames :
        Install(Register(DB, cn, un), "register", 0, I)

DoSiteAdminUserUpdate(I) ==
    \E id \in I.users, un \in I.usernames :
        Install(SiteAdminUserUpdate(DB, id, un), "site_admin_user_update", 0, I)

DoSiteAdminUserDelete(I) ==
    \E id \in I.users :
        Install(SiteAdminUserDelete(DB, id), "site_admin_user_delete", 0, I)

DoAdmins(I) ==
    \E cu \in I.users, un \in I.usernames :
        Install(Admins(DB, cu, un), "admins", cu, I)

DoAdminDelete(I) ==
    \E cu \in I.users, id \in I.users :
        Install(AdminDelete(DB, cu, id), "admin_delete", cu, I)

DoTeams(I) ==
    \E cu \in I.users, name \in I.team_names, m \in I.managers :
        Install(Teams(DB, cu, name, m), "teams", cu, I)

DoTeamDetailExisting(I) ==
    \E cu \in I.users, t \in I.teams, e \in I.employees :
        Install(TeamDetailExisting(DB, cu, t, e), "team_detail_existing", cu, I)

DoTeamDetailNew(I) ==
    \E cu \in I.users, t \in I.teams, name \in I.raw_names,
       sal \in I.salaries, temp \in I.temp :
        Install(TeamDetailNew(DB, cu, t, name, sal, temp), "team_detail_new", cu, I)

DoTeamEmployeeUpdate(I) ==
    \E cu \in I.users, t \in I.teams, e \in I.employees,
       name \in I.raw_names, sal \in I.salaries :
        Install(TeamEmployeeUpdate(DB, cu, t, e, <<name>>, sal),
                "team_employee_update", cu, I)

DoTeamEmployeeDelete(I) ==
    \E cu \in I.users, t \in I.teams, e \in I.employees :
        Install(TeamEmployeeDelete(DB, cu, t, e), "team_employee_delete", cu, I)

DoTeamAttendance(I) ==
    \E cu \in I.users, t \in I.teams, d \in I.dates, form \in I.forms,
       note \in I.notes :
        Install(TeamAttendance(DB, cu, t, d, form, note), "team_attendance", cu, I)

DoEmployees(I) ==
    \E cu \in I.users, ts \in I.team_sets, es \in I.employee_sets :
        Install(Employees(DB, cu, ts, es), "employees", cu, I)

DoAdvances(I) ==
    \E cu \in I.users, e \in I.employees, a \in I.amounts, d \in I.dates :
        Install(Advances(DB, cu, e, a, d, ""), "advances", cu, I)

\* the payroll view commits nothing
DoPayroll(I) ==
    \E cu \in I.users, k \in I.months, scope \in {"month", "all"} :
        /\ commits < I.max_commits
        /\ Payroll(DB, cu, k[1], k[2], scope, "").st = "ok"
        /\ UNCHANGED vars

DoExportExcel(I) ==
    \E cu \in I.users, k \in I.months, scope \in {"month", "all"} :
        Install(ExportExcel(DB, cu, k[1], k[2], scope, ""), "export_excel", cu, I)

\* companies, principals, teams and employees
OrgStep(I) ==
    \/ DoRegister(I)
    \/ DoSiteAdminUserUpdate(I)
    \/ DoSiteAdminUserDelete(I)
    \/ DoAdmins(I)
    \/ DoAdminDelete(I)
    \/ DoTeams(I)
    \/ DoTeamDetailExisting(I)
    \/ DoTeamDetailNew(I)
    \/ DoTeamEmployeeUpdate(I)
    \/ DoTeamEmployeeDelete(I)

\* the ledgers and the reports
LedgerStep(I) ==
    \/ DoTeamAttendance(I)
    \/ DoEmployees(I)
    \/ DoAdvances(I)
    \/ DoPayroll(I)
    \/ DoExportExcel(I)

(***************************************************************************)
(* Inputs and initial states.                                              *)
(***************************************************************************)
PastDate == <<2024, 2, 1>>
FutureDate == <<2024, 4, 1>>

\* submitted day counts: 0, 0.25, 0.5 and 1 day
RawDayCounts == {0, 1, 2, 4}

\* the forms that hold a value for some of the employee ids S
Forms(S) == UNION {[D -> RawDayCounts] : D \in SUBSET S}

\* the requests handled at the same time
Requests == 1 .. MaxRequest

NoRequest == [pc |-> "idle"]

NoLast == [op |-> "none", cu |-> 0, acc |-> {}, rej |-> {}, del |-> FALSE]

InitWith(db) ==
    /\ company = db.company
    /\ user = db.user
    /\ team = db.team
    /\ employee = db.employee
    /\ team_members = db.team_members
    /\ attendance = db.attendance
    /\ attendance_note = db.attendance_note
    /\ advance = db.advance
    /\ audit_log = db.audit_log
    /\ req = [i \in Requests |-> NoRequest]
    /\ last = NoLast
    /\ commits = 0

\* the sets of at most one element of S, and S
SmallSets(S) == {{}} \cup {{x} : x \in S} \cup {S}

\* Company A as these requests leave it: owner 1, administrator 2, teams 1
\* (manager 1), 2 (manager 2) and 3 (manager 1), employee 1 (teams 1, 2 and
\* 3, created by 1) and employee 2 (team 1, created by 2)
SetUp ==
    LET s1 == Register(EmptyDB, "A", "u").db
        s2 == Admins(s1, 1, "v").db
        s3 == Teams(s2, 1, "s", 1).db
        s4 == Teams(s3, 1, "t", 2).db
        s5 == Teams(s4, 1, "r", 1).db
        s6 == TeamDetailNew(s5, 1, 1, "x", 200, FALSE).db
        s7 == TeamDetailExisting(s6, 1, 2, 1).db
        s8 == TeamDetailExisting(s7, 1, 3, 1).db
    IN TeamDetailNew(s8, 2, 1, "y", 100, FALSE).db

Inputs ==
    [max_commits |-> MaxCommit,
     caps |-> [company |-> MaxCompany, user |-> MaxUser, team |-> MaxTeam,
               employee |-> MaxEmployee],
     company_names |-> {"A", "B"}, usernames |-> {"u", "v"},
     users |-> 1 .. MaxUser, managers |-> 1 .. MaxUser + 1,
     team_names |-> {"s", "t"}, teams |-> 1 .. MaxTeam,
     employees |-> 1 .. MaxEmployee, raw_names |-> {"x", "y"},
     salaries |-> {200}, temp |-> {FALSE},
     dates |-> {PastDate, FutureDate},
     forms |-> Forms(1 .. MaxEmployee), notes |-> {""},
     team_sets |-> SmallSets(1 .. MaxTeam),
     employee_sets |-> SmallSets(1 .. MaxEmployee),
     amounts |-> {300}, months |-> {<<2024, 2>>}]

Init == InitWith(SetUp)

\* the ledgers, the reports and the deletions, on the company set up
Next ==
    \/ LedgerStep(Inputs)
    \/ DoTeamEmployeeDelete(Inputs)
    \/ DoAdminDelete(Inputs)
    \/ DoSiteAdminUserDelete(Inputs)

Spec == Init /\ [][Next]_vars

\* Two companies as these requests leave them: company 1 with owner 1,
\* administrator 2, team 1 and employee 1; company 2 with owner 3, team 2
\* and employee 2, who has a day of attendance and an advance
TwoCompanies ==
    LET s1 == Register(EmptyDB, "A", "u").db
        s2 == Admins(s1, 1, "v").db
        s3 == Register(s2, "B", "u").db
        s4 == Teams(s3, 1, "s", 1).db
        s5 == Teams(s4, 3, "s", 3).db
        s6 == TeamDetailNew(s5, 1, 1, "x", 200, FALSE).db
        s7 == TeamDetailNew(s6, 3, 2, "x", 100, FALSE).db
        s8 == TeamAttendance(s7, 3, 2, PastDate, 2 :> OneDay, "").db
    IN Advances(s8, 3, 2, 300, PastDate, "").db

\* room for one more company, two more principals, one more team and one
\* more employee, and a manager id that names no principal
TenantInputs ==
    [max_commits |-> MaxCommit,
     caps |-> [company |-> MaxCompany + 1, user |-> MaxUser + 2, team |-> MaxTeam,
               employee |-> MaxEmployee + 1],
     company_names |-> {"B", "C"}, usernames |-> {"u", "v"},
     users |-> 1 .. MaxUser + 2, managers |-> 1 .. MaxUser + 3,
     team_names |-> {"s", "t"}, teams |-> 1 .. MaxTeam,
     employees |-> 1 .. MaxEmployee + 1, raw_names |-> {"x", "y"},
     salaries |-> {200}, temp |-> {FALSE},
     dates |-> {PastDate},
     forms |-> {e :> OneDay : e \in 1 .. MaxEmployee + 1}, notes |-> {""},
     team_sets |-> SmallSets(1 .. MaxTeam),
     employee_sets |-> SmallSets(1 .. MaxEmployee + 1),
     amounts |-> {300}, months |-> {<<2024, 2>>}]

InitTenants == InitWith(TwoCompanies)

\* every request, on the two companies
NextTenants ==
    \/ OrgStep(TenantInputs)
    \/ LedgerStep(TenantInputs)

SpecTenants == InitTenants /\ [][NextTenants]_vars

(***************************************************************************)
(* Requests handled at the same time (the server of line 1176 runs each    *)
(* request in a thread of its own, with its own session and connection).  *)
(* The SELECTs of a request run outside a transaction: the sqlite3 driver  *)
(* begins one at the session's first INSERT or UPDATE, which takes the     *)
(* write lock of the database and keeps it to the commit.  A SELECT reads  *)
(* the committed tables; a connection that waits for the lock longer than  *)
(* the timeout of line 35 raises OperationalError.                         *)
(***************************************************************************)
tables == <<company, user, team, employee, team_members,
            attendance, attendance_note, advance, audit_log>>

\* the request holds the write lock
HoldsLock(r) == r.pc = "note" /\ r.lock

\* no other request holds the write lock
LockFree(i) == \A j \in Requests \ {i} : ~HoldsLock(req[j])

\* AttendanceNote.query.filter_by(company_id, team_id, note_date).first():
\* the set of the note found, empty for None
NoteOf(db, company_id, team_id, work_date) ==
    LET S == {r \in Rows(db.attendance_note) : /\ r.company_id = company_id
                                              /\ r.team_id = team_id
                                              /\ r.note_date = work_date}
    IN IF S = {} THEN {} ELSE {CHOOSE r \in S : TRUE}

\* the session after the loop of lines 692-728: the entries it will write,
\* each with the record the query of line 698 found
AttendanceLoop(db, cu, team_id, work_date, form, note) ==
    LET acc == Accepted(db, team_id, work_date, form)
    IN [pc |-> "loop", cu |-> cu, team_id |-> team_id, work_date |-> work_date,
        form |-> form, note |-> note, acc |-> acc,
        rej |-> Rejected(db, team_id, work_date, form),
        found |-> [e \in acc |-> RecordOf(db.attendance, e, team_id, work_date)],
        lock |-> FALSE, note_found |-> {}]

\* the statement the flush emits for one entry: an INSERT for a record
\* added to the session, else an UPDATE, of the row with the loaded
\* record's id, of the columns whose value differs from the one loaded
FlushRecord(att, loaded, company_id, cu, employee_id, team_id, work_date, day_count) ==
    IF loaded = {}
    THEN WriteRecord(att, {}, company_id, cu, employee_id, team_id, work_date, day_count)
    ELSE LET l == CHOOSE x \in loaded : TRUE
             now == RecordOf(att, employee_id, team_id, work_date)
         IN IF now = {} THEN att
            ELSE LET c == CHOOSE x \in now : TRUE
                 IN BagAdd(BagRemoveOne(att, c),
                       [c EXCEPT
                          !.day_count = IF day_count # l.day_count THEN day_count ELSE @,
                          !.created_by = IF cu # l.created_by THEN cu ELSE @])

RECURSIVE FlushEntries(_, _, _, _)
\* the flush of the entries todo of the session r
FlushEntries(att, todo, r, company_id) ==
    IF todo = {} THEN att
    ELSE LET e == CHOOSE x \in todo : TRUE
         IN FlushEntries(FlushRecord(att, r.found[e], company_id, r.cu, e,
                                     r.team_id, r.work_date, r.form[e]),
                         todo \ {e}, r, company_id)

\* lines 736-747 at the flush: INSERT of a new note, else UPDATE of the
\* columns of the loaded note that changed
FlushNote(db, loaded, company_id, cu, team_id, work_date, text) ==
    IF loaded = {}
    THEN [db EXCEPT !.attendance_note =
             BagAdd(@, [company_id |-> company_id, team_id |-> team_id,
                        note_date |-> work_date, note |-> text,
                        created_by |-> cu])]
    ELSE LET l == CHOOSE x \in loaded : TRUE
             now == NoteOf(db, company_id, team_id, work_date)
         IN IF now = {} THEN db
            ELSE LET c == CHOOSE x \in now : TRUE
                 IN [db EXCEPT !.attendance_note =
                        BagAdd(BagRemoveOne(@, c),
                           [c EXCEPT
                              !.note = IF text # l.note THEN text ELSE @,
                              !.created_by = IF cu # l.created_by THEN cu ELSE @])]

\* the session has an INSERT or UPDATE of attendance to emit
Dirty(r) ==
    \E e \in r.acc :
        \/ r.found[e] = {}
        \/ \E l \in r.found[e] : l.day_count # r.form[e] \/ l.created_by # r.cu

\* the commit has a statement to emit
CommitWrites(r) ==
    \/ r.acc # {}
    \/ r.note_found = {}
    \/ \E l \in r.note_found : l.note # r.note \/ l.created_by # r.cu

\* a request that ended in an exception: the session is rolled back
Failed(r, error) ==
    [op |-> error, cu |-> r.cu, acc |-> r.acc, rej |-> r.rej, del |-> FALSE]

\* lines 669-728: the early returns and the loop
AttendanceBegin(i, I) ==
    /\ commits < I.max_commits
    /\ req[i].pc = "idle"
    /\ \E cu \in I.users, t \in I.teams, d \in I.dates, form \in I.forms,
          note \in I.notes :
          /\ AttendanceGuards(DB, cu, t, d) = "ok"
          /\ req' = [req EXCEPT ![i] = AttendanceLoop(DB, cu, t, d, form, note)]
    /\ UNCHANGED <<tables, last, commits>>

\* line 731: the query flushes the session, then reads the note
AttendanceFlush(i, I) ==
    /\ req[i].pc = "loop"
    /\ LET r == req[i]
           att2 == FlushEntries(attendance, r.acc, r, CompanyOf(DB, r.cu))
           read == [r EXCEPT !.pc = "note",
                             !.note_found = NoteOf(DB, CompanyOf(DB, r.cu),
                                                   r.team_id, r.work_date)]
       IN IF Dirty(r)
          THEN /\ LockFree(i)
               /\ IF AttendanceUnique(att2) /\ AttendanceCheck(att2)
                  THEN /\ req' = [req EXCEPT ![i] = [read EXCEPT !.lock = TRUE]]
                       /\ UNCHANGED last
                  ELSE /\ req' = [req EXCEPT ![i] = NoRequest]
                       /\ last' = Failed(r, "integrity_error")
          ELSE /\ req' = [req EXCEPT ![i] = read]
               /\ UNCHANGED last
    /\ UNCHANGED <<tables, commits>>

\* the wait for the write lock ends at the timeout of line 35
AttendanceTimeout(i, I) ==
    /\ req[i].pc \in {"loop", "note"}
    /\ ~HoldsLock(req[i])
    /\ ~LockFree(i)
    /\ IF req[i].pc = "loop" THEN Dirty(req[i]) ELSE CommitWrites(req[i])
    /\ req' = [req EXCEPT ![i] = NoRequest]
    /\ last' = Failed(req[i], "operational_error")
    /\ UNCHANGED <<tables, commits>>

\* lines 736-754: the note, the audit entry and the commit
AttendanceCommit(i, I) ==
    /\ commits < I.max_commits
    /\ req[i].pc = "note"
    /\ HoldsLock(req[i]) \/ LockFree(i) \/ ~CommitWrites(req[i])
    /\ LET r == req[i]
           cid == CompanyOf(DB, r.cu)
           d1 == [DB EXCEPT !.attendance = FlushEntries(@, r.acc, r, cid)]
           d2 == FlushNote(d1, r.note_found, cid, r.cu, r.team_id, r.work_date, r.note)
           d3 == BatchLog(d2, r.cu, r.acc)
       IN IF FlushOK(d3)
          THEN /\ attendance' = d3.attendance
               /\ attendance_note' = d3.attendance_note
               /\ audit_log' = d3.audit_log
               /\ last' = [op |-> "team_attendance", cu |-> r.cu, acc |-> r.acc,
                           rej |-> r.rej, del |-> FALSE]
               /\ commits' = commits + 1
          ELSE /\ last' = Failed(r, "integrity_error")
               /\ UNCHANGED <<attendance, attendance_note, audit_log, commits>>
    /\ req' = [req EXCEPT ![i] = NoRequest]
    /\ UNCHANGED <<company, user, team, employee, team_members, advance>>

\* requests that record a day count for employee 1
ConcInputs ==
    [max_commits |-> MaxConcCommit, users |-> 1 .. MaxUser, teams |-> 1 .. MaxTeam,
     dates |-> {PastDate}, forms |-> {1 :> 2, 1 :> OneDay}, notes |-> {""}]

NextConc ==
    \E i \in Requests :
        \/ AttendanceBegin(i, ConcInputs)
        \/ AttendanceFlush(i, ConcInputs)
        \/ AttendanceTimeout(i, ConcInputs)
        \/ AttendanceCommit(i, ConcInputs)

SpecConc == Init /\ [][NextConc]_vars

(***************************************************************************)
(* The deletions of principals, statement by statement.  The session of a  *)
(* request is transactional: a bulk statement (Query.delete, Query.update, *)
(* execute) is sent to the database when it is called, inside the          *)
(* transaction that the connection's first statement begins and that       *)
(* holds the write lock; the other connections read the committed tables   *)
(* until db.session.commit().  An exception ends the request and the       *)
(* session is rolled back.                                                 *)
(***************************************************************************)
\* a connection in autocommit mode: each statement is committed as it is sent
CommittedAutocommit(db, work) == work

\* what a statement of an open transaction leaves in the committed tables
Committed(db, work) == db

\* the statements of purge_employees, not called for an empty list
EmployeeStatements(x) ==
    IF x.employee_ids = {} THEN <<>>
    ELSE <<"attendance_of", "advance_of", "members_of", "employees">>

\* the statements of the request x, in the order of the code
Program(x) ==
    CASE x.kind = "admin_delete" ->
           EmployeeStatements(x)
             \o <<"attendance_by_in", "note_by_in", "advance_by_in",
                  "team_manager", "audit_by_in">>
      [] x.kind = "purge_user" ->
           EmployeeStatements(x)
             \o <<"attendance_by", "note_by", "advance_by", "audit_by">>
      [] x.kind = "purge_company" ->
           (IF x.team_ids = {} THEN <<>> ELSE <<"notes_of_teams">>)
             \o EmployeeStatements(x)
             \o <<"audit_co", "attendance_co", "advance_co", "teams_co",
                  "users_co", "company">>

\* one statement, on the tables the connection sees
Statement(name, db, x) ==
    CASE name = "attendance_of" ->
           [db EXCEPT !.attendance =
               BagFilter(@, LAMBDA r : r.employee_id \notin x.employee_ids)]
      [] name = "advance_of" ->
           [db EXCEPT !.advance =
               BagFilter(@, LAMBDA r : r.employee_id \notin x.employee_ids)]
      [] name = "members_of" ->
           [db EXCEPT !.team_members = {m \in @ : m.employee_id \notin x.employee_ids}]
      [] name = "employees" ->
           [db EXCEPT !.employee = {e \in @ : e.id \notin x.employee_ids}]
      [] name = "attendance_by_in" ->
           [db EXCEPT !.attendance = BagFilter(@, LAMBDA r :
               ~(r.company_id = x.company_id /\ r.created_by = x.target))]
      [] name = "note_by_in" ->
           [db EXCEPT !.attendance_note = BagFilter(@, LAMBDA r :
               ~(r.company_id = x.company_id /\ r.created_by = x.target))]
      [] name = "advance_by_in" ->
           [db EXCEPT !.advance = BagFilter(@, LAMBDA r :
               ~(r.company_id = x.company_id /\ r.created_by = x.target))]
      [] name = "team_manager" ->
           [db EXCEPT !.team =
               {IF t.company_id = x.company_id /\ t.manager_id = x.target
                THEN [t EXCEPT !.manager_id = x.cu] ELSE t : t \in @}]
      [] name = "audit_by_in" ->
           [db EXCEPT !.audit_log = BagFilter(@, LAMBDA r :
               ~(r.company_id = x.company_id /\ r.operator_id = x.target))]
      [] name = "attendance_by" ->
           [db EXCEPT !.attendance = BagFilter(@, LAMBDA r : r.created_by # x.target)]
      [] name = "note_by" ->
           [db EXCEPT !.attendance_note =
               BagFilter(@, LAMBDA r : r.created_by # x.target)]
      [] name = "advance_by" ->
           [db EXCEPT !.advance = BagFilter(@, LAMBDA r : r.created_by # x.target)]
      [] name = "audit_by" ->
           [db EXCEPT !.audit_log = BagFilter(@, LAMBDA r : r.operator_id # x.target)]
      [] name = "notes_of_teams" ->
           [db EXCEPT !.attendance_note =
               BagFilter(@, LAMBDA r : r.team_id \notin x.team_ids)]
      [] name = "audit_co" ->
           [db EXCEPT !.audit_log = BagFilter(@, LAMBDA r : r.company_id # x.company_id)]
      [] name = "attendance_co" ->
           [db EXCEPT !.attendance = BagFilter(@, LAMBDA r : r.company_id # x.company_id)]
      [] name = "advance_co" ->
           [db EXCEPT !.advance = BagFilter(@, LAMBDA r : r.company_id # x.company_id)]
      [] name = "teams_co" ->
           [db EXCEPT !.team = {t \in @ : t.company_id # x.company_id}]
      [] name = "users_co" ->
           [db EXCEPT !.user = {u \in @ : u.company_id # x.company_id}]
      [] name = "company" ->
           [db EXCEPT !.company = {c \in @ : c.id # x.company_id}]

RECURSIVE RunFrom(_, _, _)
\* the statements of x from the k-th on, applied to db
RunFrom(db, x, k) ==
    IF k > Len(Program(x)) THEN db
    ELSE RunFrom(Statement(Program(x)[k], db, x), x, k + 1)

\* the flush of the commit, after the statements: the audit entry of line
\* 485, from the current user loaded at the login check, and the DELETE of
\* the principal marked by db.session.delete
Finish(work, x) ==
    CASE x.kind = "admin_delete" ->
           FlushDeleteUsers(
               [work EXCEPT !.audit_log =
                   BagAdd(@, [company_id |-> x.company_id, operator_id |-> x.cu,
                              action |-> "delete_admin"])],
               {x.target})
      [] x.kind = "purge_user" -> FlushDeleteUsers(work, {x.target})
      [] x.kind = "purge_company" -> [ok |-> TRUE, db |-> work]

\* admin_delete to its first statement (lines 455-471): the early returns
\* and the query of the employees
AdminDeleteReads(db, cu, id) ==
    [pc |-> "purge", kind |-> "admin_delete", cu |-> cu, target |-> id,
     company_id |-> CompanyOf(db, cu),
     employee_ids |-> {e.id : e \in {y \in db.employee :
                         y.company_id = CompanyOf(db, cu) /\ y.created_by = id}},
     team_ids |-> {}, k |-> 0, work |-> db, seen |-> db]

\* site_admin_user_delete to its first statement (lines 398, 262 and 266,
\* or 244-245 for an owner)
SiteAdminDeleteReads(db, id) ==
    LET u == Get(db.user, id)
    IN IF u.is_owner
       THEN [pc |-> "purge", kind |-> "purge_company", cu |-> 0, target |-> id,
             company_id |-> u.company_id,
             employee_ids |-> {e.id : e \in {y \in db.employee :
                                 y.company_id = u.company_id}},
             team_ids |-> {t.id : t \in {y \in db.team : y.company_id = u.company_id}},
             k |-> 0, work |-> db, seen |-> db]
       ELSE [pc |-> "purge", kind |-> "purge_user", cu |-> 0, target |-> id,
             company_id |-> u.company_id,
             employee_ids |-> {e.id : e \in {y \in db.employee : y.created_by = id}},
             team_ids |-> {}, k |-> 0, work |-> db, seen |-> db]

\* the request has sent a statement and holds the write lock
InTransaction(r) == r.pc = "purge" /\ r.k > 0

\* no other request holds the write lock
NoOtherTransaction(i) == \A j \in Requests \ {i} : ~InTransaction(req[j])

\* the committed tables become db
Store(db) ==
    /\ company' = db.company
    /\ user' = db.user
    /\ team' = db.team
    /\ employee' = db.employee
    /\ team_members' = db.team_members
    /\ attendance' = db.attendance
    /\ attendance_note' = db.attendance_note
    /\ advance' = db.advance
    /\ audit_log' = db.audit_log

PurgeBegin(i, I) ==
    /\ commits < I.max_commits
    /\ req[i].pc = "idle"
    /\ \/ \E cu \in I.users, id \in I.users :
             /\ AdminDelete(DB, cu, id).st \in {"ok", "integrity_error"}
             /\ req' = [req EXCEPT ![i] = AdminDeleteReads(DB, cu, id)]
       \/ \E id \in I.users :
             /\ Exists(user, id)
             /\ req' = [req EXCEPT ![i] = SiteAdminDeleteReads(DB, id)]
    /\ UNCHANGED <<tables, last, commits>>

\* the next statement of the request
PurgeStatement(i, I) ==
    /\ req[i].pc = "purge"
    /\ req[i].k < Len(Program(req[i]))
    /\ NoOtherTransaction(i)
    /\ LET r == req[i]
           work == Statement(Program(r)[r.k + 1], IF r.k = 0 THEN DB ELSE r.work, r)
       IN /\ req' = [req EXCEPT ![i] = [r EXCEPT !.k = @ + 1, !.work = work]]
          /\ Store(Committed(DB, work))
    /\ UNCHANGED <<last, commits>>

\* the wait of the first statement for the write lock ends at the timeout
\* of line 35
PurgeTimeout(i, I) ==
    /\ req[i].pc = "purge"
    /\ req[i].k = 0
    /\ ~NoOtherTransaction(i)
    /\ req' = [req EXCEPT ![i] = NoRequest]
    /\ last' = [op |-> "operational_error", cu |-> req[i].cu, acc |-> {},
                rej |-> {}, del |-> FALSE]
    /\ UNCHANGED <<tables, commits>>

\* db.session.commit() of lines 400 and 486
PurgeCommit(i, I) ==
    /\ commits < I.max_commits
    /\ req[i].pc = "purge"
    /\ req[i].k = Len(Program(req[i]))
    /\ LET r == req[i]
           f == Finish(r.work, r)
       IN IF f.ok
          THEN /\ Store(f.db)
               /\ last' = [op |-> r.kind, cu |-> r.cu, acc |-> r.employee_ids,
                           rej |-> {}, del |-> LedgerSize(DB) > LedgerSize(f.db)]
               /\ commits' = commits + 1
          ELSE /\ last' = [op |-> "integrity_error", cu |-> r.cu,
                           acc |-> r.employee_ids, rej |-> {}, del |-> FALSE]
               /\ UNCHANGED <<tables, commits>>
    /\ req' = [req EXCEPT ![i] = NoRequest]

\* a request that writes a ledger, handled while no transaction is open
LedgerWrite(I) ==
    /\ \A j \in Requests : ~InTransaction(req[j])
    /\ \/ DoTeamAttendance(I)
       \/ DoAdvances(I)

\* the company of SetUp after a batch of its administrator and an advance
SetUpLedger ==
    LET s1 == TeamAttendance(SetUp, 2, 1, PastDate, (1 :> 2) @@ (2 :> OneDay), "").db
    IN Advances(s1, 1, 2, 300, PastDate, "").db

PurgeInputs ==
    [max_commits |-> MaxCommit,
     caps |-> [company |-> MaxCompany, user |-> MaxUser, team |-> MaxTeam,
               employee |-> MaxEmployee],
     users |-> 1 .. MaxUser, teams |-> {1}, employees |-> 1 .. MaxEmployee,
     dates |-> {PastDate}, forms |-> {1 :> 2, 2 :> 0}, notes |-> {""},
     amounts |-> {300}, months |-> {<<2024, 2>>}]

InitPurge == InitWith(SetUpLedger)

NextPurge ==
    \/ \E i \in Requests :
          \/ PurgeBegin(i, PurgeInputs)
          \/ PurgeStatement(i, PurgeInputs)
          \/ PurgeTimeout(i, PurgeInputs)
          \/ PurgeCommit(i, PurgeInputs)
    \/ LedgerWrite(PurgeInputs)
    \/ DoPayroll(PurgeInputs)

SpecPurge == InitPurge /\ [][NextPurge]_vars

(***************************************************************************)
(* The reports.  Two companies with records in several months: the         *)
(* requests that write the ledgers, the bulk clearing of attendance, the   *)
(* payroll view and the export.                                            *)
(***************************************************************************)
RECURSIVE WorkedDays(_, _)
\* employee 1 recorded by the owner for a full day in team 1 on each of the
\* first n days of February 2024
WorkedDays(db, n) ==
    IF n = 0 THEN db
    ELSE TeamAttendance(WorkedDays(db, n - 1), 1, 1, <<2024, 2, n>>,
                        1 :> OneDay, "").db

\* Company A: owner 1, teams 1 and 2, employee 1 (teams 1 and 2, 200.00 a
\* day) with ten days in February 2024 and an advance of 300, employee 2
\* (team 1, 33.35 a day).  Company B: owner 2, team 3, employee 3 (33.33 a
\* day), no records.
PayrollSetUp ==
    LET s1 == Register(EmptyDB, "A", "u").db
        s2 == Register(s1, "B", "u").db
        s3 == Teams(s2, 1, "s", 1).db
        s4 == Teams(s3, 1, "t", 1).db
        s5 == Teams(s4, 2, "s", 2).db
        s6 == TeamDetailNew(s5, 1, 1, "x", 20000, FALSE).db
        s7 == TeamDetailExisting(s6, 1, 2, 1).db
        s8 == TeamDetailNew(s7, 1, 1, "y", 3335, FALSE).db
        s9 == TeamDetailNew(s8, 2, 3, "x", 3333, FALSE).db
    IN Advances(WorkedDays(s9, 10), 1, 1, 300, <<2024, 2, 5>>, "").db

\* dates in the month of the fixture, the month before, and the same month
\* of the year before
PayrollDates == {<<2023, 2, 1>>, <<2024, 1, 31>>, <<2024, 2, 11>>}

PayrollInputs ==
    [max_commits |-> MaxCommit,
     caps |-> [company |-> MaxCompany, user |-> MaxUser, team |-> MaxTeam,
               employee |-> MaxEmployee + 1],
     users |-> 1 .. MaxUser, teams |-> 1 .. MaxTeam,
     employees |-> 1 .. MaxEmployee + 1,
     dates |-> PayrollDates,
     forms |-> {1 :> 2, 2 :> 2, 2 :> OneDay, 3 :> 2, (1 :> OneDay) @@ (2 :> 2)},
     notes |-> {""},
     team_sets |-> SmallSets(1 .. MaxTeam),
     employee_sets |-> SmallSets(1 .. MaxEmployee + 1),
     amounts |-> {300, 1000},
     months |-> {<<2024, 1>>, <<2024, 2>>}]

InitPayroll == InitWith(PayrollSetUp)

NextPayroll == LedgerStep(PayrollInputs)

SpecPayroll == InitPayroll /\ [][NextPayroll]_vars

(***************************************************************************)
(* Properties of the attendance ledger.                                    *)
(***************************************************************************)
\* the day counts of employee e on date d, over all teams
DayTotal(att, e, d) ==
    SumDayCount(att, LAMBDA r : r.employee_id = e /\ r.work_date = d)

\* the attendance rows of employee e
RowsOfEmployee(att, e) == BagFilter(att, LAMBDA r : r.employee_id = e)

\* C1: for every employee and every date, the day counts recorded for the
\* employee on that date, over all teams, sum to at most one day.
CeilingInvariant ==
    \A r \in Rows(attendance) :
        DayTotal(attendance, r.employee_id, r.work_date) <= OneDay

\* an employee has a full day split over two teams
CeilingReached ==
    \E r \in Rows(attendance), q \in Rows(attendance) :
        /\ r.employee_id = q.employee_id
        /\ r.work_date = q.work_date
        /\ r.team_id # q.team_id
        /\ r.day_count > 0
        /\ q.day_count > 0
        /\ DayTotal(attendance, r.employee_id, r.work_date) = OneDay

\* C3: an entry rejected by the ceiling check leaves the employee's
\* attendance rows as they were, and the batch appends no audit entry unless
\* it accepted another entry.
RejectionIsNoOp ==
    \A cu \in Inputs.users, t \in Inputs.teams, d \in Inputs.dates,
       form \in Inputs.forms, note \in Inputs.notes :
        LET r == TeamAttendance(DB, cu, t, d, form, note)
        IN /\ \A e \in r.rej :
                 RowsOfEmployee(r.db.attendance, e) = RowsOfEmployee(attendance, e)
           /\ (r.rej # {} /\ r.acc = {}) => r.db.audit_log = audit_log
           /\ BagCardinality(r.db.audit_log) <= BagCardinality(audit_log) + 1

\* a batch has committed in which one entry was rejected and another accepted
RejectionCommitted ==
    /\ last.op = "team_attendance"
    /\ last.rej # {}
    /\ last.acc # {}

\* C4: recording the same entries twice in sequence leaves one record per
\* key with the recorded day count, and the second call leaves the table as
\* the first left it.
IdempotentUpsert ==
    \A cu \in Inputs.users, t \in Inputs.teams, d \in Inputs.dates,
       form \in Inputs.forms, note \in Inputs.notes :
        LET r1 == TeamAttendance(DB, cu, t, d, form, note)
            r2 == TeamAttendance(r1.db, cu, t, d, form, note)
        IN r1.st = "ok" =>
             /\ r2.st = "ok"
             /\ r2.db.attendance = r1.db.attendance
             /\ \A e \in r1.acc :
                   LET key == BagFilter(r2.db.attendance,
                                 LAMBDA x : /\ x.employee_id = e
                                            /\ x.team_id = t
                                            /\ x.work_date = d)
                   IN /\ BagCardinality(key) = 1
                      /\ \A x \in Rows(key) : x.day_count = form[e]

\* two batches were accepted and left one record: the second wrote the key
\* of the first
RecordedTwice ==
    /\ last.op = "team_attendance"
    /\ last.acc # {}
    /\ commits = 2
    /\ BagCardinality(attendance) = 1
    /\ BagCardinality(attendance_note) = 1
    /\ BagCardinality(BagFilter(audit_log,
                                LAMBDA r : r.action = "batch_attendance")) = 2

\* the forms whose values are all day counts of the domain
DomainForms == {f \in Inputs.forms : \A e \in DOMAIN f : f[e] \in DayCountDomain}

\* the day counts of employee e on date d in the teams other than t: the
\* day's total less the record of the key (e, t, d)
OtherTeams(att, e, t, d) ==
    DayTotal(att, e, d)
      - SumDayCount(att, LAMBDA r : r.employee_id = e /\ r.work_date = d
                                                     /\ r.team_id = t)

\* C6: a write of a day count of the domain for (employee, team, date) is
\* accepted if and only if the employee's day counts on that date in the
\* other teams plus the new day count are at most one day; an accepted
\* write leaves the new day count at the key and the other teams' as they
\* were, a rejected one leaves the employee's rows as they were.
AcceptedIffWithinCeiling ==
    \A cu \in Inputs.users, t \in Inputs.teams, d \in Inputs.dates,
       form \in DomainForms, note \in Inputs.notes :
        LET r == TeamAttendance(DB, cu, t, d, form, note)
            written == {m.id : m \in {x \in MembersOf(DB, t) : HasValue(form, x.id)}}
        IN /\ r.st # "integrity_error"
           /\ r.st = "ok" =>
                /\ r.acc \cup r.rej = written
                /\ r.acc \cap r.rej = {}
                /\ \A e \in written :
                      LET other == OtherTeams(attendance, e, t, d)
                      IN IF other + form[e] <= OneDay
                         THEN /\ e \in r.acc
                              /\ OtherTeams(r.db.attendance, e, t, d) = other
                              /\ DayTotal(r.db.attendance, e, d) = other + form[e]
                         ELSE /\ e \in r.rej
                              /\ RowsOfEmployee(r.db.attendance, e)
                                   = RowsOfEmployee(attendance, e)

\* employee 1 has half a day in team 1 and half a day in team 2: half a day
\* is accepted again in team 1, a day in team 3 is rejected
HalfDayTwice ==
    /\ last.op = "team_attendance"
    /\ 1 \in last.acc
    /\ OtherTeams(attendance, 1, 1, PastDate) = 2
    /\ OtherTeams(attendance, 1, 2, PastDate) = 2
    /\ DayTotal(attendance, 1, PastDate) = OneDay
    /\ LET again == TeamAttendance(DB, 1, 1, PastDate, 1 :> 2, "")
           third == TeamAttendance(DB, 1, 3, PastDate, 1 :> OneDay, "")
       IN /\ again.st = "ok" /\ again.acc = {1}
          /\ DayTotal(again.db.attendance, 1, PastDate) = OneDay
          /\ third.st = "ok" /\ third.rej = {1}

(***************************************************************************)
(* Properties of the purges.                                               *)
(***************************************************************************)
\* no attendance, advance or team_members row of db names employee e, and
\* db has no employee e
NoTraceOf(db, e) ==
    /\ ~Exists(db.employee, e)
    /\ ~EmployeeHasChildren(db, e)
    /\ \A m \in db.team_members : m.employee_id # e

\* C8: after purge_employees of a list of employee ids, alone or in the
\* deletion of an administrator, no attendance, advance or team_members row
\* references an employee of the list, and the employees are gone.
PurgeCompleteness ==
    /\ \A ids \in SUBSET Inputs.employees :
          \A e \in ids : NoTraceOf(PurgeEmployees(DB, ids), e)
    /\ \A cu \in Inputs.users, id \in Inputs.users :
          LET r == AdminDelete(DB, cu, id)
          IN r.st = "ok" => \A e \in r.acc : NoTraceOf(r.db, e)
    /\ last.op = "admin_delete" => \A e \in last.acc : NoTraceOf(DB, e)

\* the deletion of an administrator has purged employees and removed rows
\* of the ledgers
EmployeesPurged ==
    /\ last.op = "admin_delete"
    /\ last.acc # {}
    /\ last.del
    /\ \A e \in last.acc : NoTraceOf(DB, e)

\* C10: team_employee_delete of an employee's only team deletes the
\* employee, and no attendance or advance row of the employee remains.
SoleTeamRemovalDeletesEmployee ==
    \A cu \in Inputs.users, t \in Inputs.teams, e \in Inputs.employees :
        (/\ LoggedIn(DB, cu) /\ Get(user, cu).is_admin
         /\ Exists(team, t) /\ Exists(employee, e)
         /\ EnsureCompanyScope(DB, cu, Get(team, t))
         /\ EnsureCompanyScope(DB, cu, Get(employee, e))
         /\ {m.team_id : m \in {x \in team_members : x.employee_id = e}} = {t})
        => NoTraceOf(TeamEmployeeDelete(DB, cu, t, e).db, e)

(***************************************************************************)
(* Properties of requests handled at the same time.                        *)
(***************************************************************************)
\* C2: no interleaving of the reads, writes and commits of two requests
\* commits day counts of one employee on one date that sum to more than one
\* day.
CeilingUnderConcurrency ==
    \A e \in Inputs.employees, d \in Inputs.dates :
        DayTotal(attendance, e, d) <= OneDay

\* C5: every committed state, those reached by requests that both found no
\* record for a key included, has at most one attendance row per employee,
\* team and date.
NaturalKeyUnique ==
    \A e \in Inputs.employees, t \in Inputs.teams, d \in Inputs.dates :
        BagCardinality(BagFilter(attendance,
            LAMBDA r : r.employee_id = e /\ r.team_id = t /\ r.work_date = d)) <= 1

\* of two requests that found no record for a key, one has committed its
\* row and the INSERT of the other has been refused
SecondInsertRefused ==
    /\ last.op = "integrity_error"
    /\ last.acc # {}
    /\ commits > 0
    /\ \E r \in Rows(attendance) :
          r.employee_id \in last.acc /\ r.created_by # last.cu

(***************************************************************************)
(* Properties of the companies.                                            *)
(***************************************************************************)
\* the team_members row m is of a team of company c
MemberOfCompany(db, m, c) == \E t \in db.team : t.id = m.team_id /\ t.company_id = c

\* the rows of db that are not of company c
Foreign(db, c) ==
    [company |-> {x \in db.company : x.id # c},
     user |-> {x \in db.user : x.company_id # c},
     team |-> {x \in db.team : x.company_id # c},
     employee |-> {x \in db.employee : x.company_id # c},
     team_members |-> {m \in db.team_members : ~MemberOfCompany(db, m, c)},
     attendance |-> BagFilter(db.attendance, LAMBDA r : r.company_id # c),
     attendance_note |-> BagFilter(db.attendance_note, LAMBDA r : r.company_id # c),
     advance |-> BagFilter(db.advance, LAMBDA r : r.company_id # c),
     audit_log |-> BagFilter(db.audit_log, LAMBDA r : r.company_id # c)]

\* the rows of db that are of company c
OwnPart(db, c) ==
    [company |-> {x \in db.company : x.id = c},
     user |-> {x \in db.user : x.company_id = c},
     team |-> {x \in db.team : x.company_id = c},
     employee |-> {x \in db.employee : x.company_id = c},
     team_members |-> {m \in db.team_members : MemberOfCompany(db, m, c)},
     attendance |-> BagFilter(db.attendance, LAMBDA r : r.company_id = c),
     attendance_note |-> BagFilter(db.attendance_note, LAMBDA r : r.company_id = c),
     advance |-> BagFilter(db.advance, LAMBDA r : r.company_id = c),
     audit_log |-> BagFilter(db.audit_log, LAMBDA r : r.company_id = c)]

\* what the caller is told: a request that names a row of another company
\* is refused as one that names no row is (the first is redirected by
\* ensure_company_scope, the second answered 404 by get_or_404)
Outcome(st) == IF st \in {"denied", "not_found"} THEN "refused" ELSE st

\* the request that ended as r left the rows of the other companies as they
\* were, and ends as it does, o, where the other companies have no rows
Isolated(r, o, c) ==
    /\ Foreign(r.db, c) = Foreign(DB, c)
    /\ Outcome(r.st) = Outcome(o.st)

\* C7: a request of a principal of a company creates, modifies and deletes
\* no row of another company, and its outcome and its report are those it
\* has where the other companies have no rows.
TenantIsolation ==
    \A cu \in {u.id : u \in user} :
      LET c == CompanyOf(DB, cu)
          own == OwnPart(DB, c)
          I == TenantInputs
      IN /\ \A un \in I.usernames :
               Isolated(Admins(DB, cu, un), Admins(own, cu, un), c)
         /\ \A id \in I.users :
               Isolated(AdminDelete(DB, cu, id), AdminDelete(own, cu, id), c)
         /\ \A name \in I.team_names, m \in I.managers :
               Isolated(Teams(DB, cu, name, m), Teams(own, cu, name, m), c)
         /\ \A t \in I.teams, e \in I.employees :
               /\ Isolated(TeamDetailExisting(DB, cu, t, e),
                           TeamDetailExisting(own, cu, t, e), c)
               /\ Isolated(TeamEmployeeDelete(DB, cu, t, e),
                           TeamEmployeeDelete(own, cu, t, e), c)
               /\ \A name \in I.raw_names, sal \in I.salaries :
                     Isolated(TeamEmployeeUpdate(DB, cu, t, e, <<name>>, sal),
                              TeamEmployeeUpdate(own, cu, t, e, <<name>>, sal), c)
         /\ \A t \in I.teams, name \in I.raw_names, sal \in I.salaries,
               temp \in I.temp :
               Isolated(TeamDetailNew(DB, cu, t, name, sal, temp),
                        TeamDetailNew(own, cu, t, name, sal, temp), c)
         /\ \A t \in I.teams, d \in I.dates, form \in I.forms, note \in I.notes :
               Isolated(TeamAttendance(DB, cu, t, d, form, note),
                        TeamAttendance(own, cu, t, d, form, note), c)
         /\ \A ts \in I.team_sets, es \in I.employee_sets :
               Isolated(Employees(DB, cu, ts, es), Employees(own, cu, ts, es), c)
         /\ \A e \in I.employees, a \in I.amounts, d \in I.dates :
               Isolated(Advances(DB, cu, e, a, d, ""), Advances(own, cu, e, a, d, ""), c)
         /\ \A k \in I.months, scope \in {"month", "all"} :
               /\ Payroll(DB, cu, k[1], k[2], scope, "")
                    = Payroll(own, cu, k[1], k[2], scope, "")
               /\ Isolated(ExportExcel(DB, cu, k[1], k[2], scope, ""),
                           ExportExcel(own, cu, k[1], k[2], scope, ""), c)

\* C9: every attendance, advance and team_members row names an employee
\* there is, every attendance, note and team_members row a team there is,
\* every manager, created_by and operator a principal there is, and every
\* row a company there is.
ReferentialIntegrity ==
    /\ \A r \in Rows(attendance) :
          /\ Exists(employee, r.employee_id) /\ Exists(team, r.team_id)
          /\ Exists(user, r.created_by) /\ Exists(company, r.company_id)
    /\ \A r \in Rows(advance) :
          /\ Exists(employee, r.employee_id)
          /\ Exists(user, r.created_by) /\ Exists(company, r.company_id)
    /\ \A m \in team_members :
          Exists(employee, m.employee_id) /\ Exists(team, m.team_id)
    /\ \A r \in Rows(attendance_note) :
          /\ Exists(team, r.team_id)
          /\ Exists(user, r.created_by) /\ Exists(company, r.company_id)
    /\ \A t \in team : Exists(user, t.manager_id) /\ Exists(company, t.company_id)
    /\ \A r \in Rows(audit_log) :
          Exists(user, r.operator_id) /\ Exists(company, r.company_id)
    /\ \A e \in employee : Exists(user, e.created_by) /\ Exists(company, e.company_id)
    /\ \A u \in user : Exists(company, u.company_id)

(***************************************************************************)
(* Properties of the deletion of principals and companies.                 *)
(***************************************************************************)
\* the deletion that ended as r deleted principal id and left every team
\* that principal id managed in db to a principal there is
Reassigned(db, r, id) ==
    /\ r.st = "ok"
    /\ ~Exists(r.db.user, id)
    /\ \A t \in {x \in db.team : x.manager_id = id} :
          \E t2 \in r.db.team :
              /\ t2.id = t.id
              /\ t2.manager_id # id
              /\ Exists(r.db.user, t2.manager_id)

\* the part of C11 that is about admin_delete: the owner's deletion of an
\* administrator of the company leaves the administrator's teams to the owner
OwnerDeletionReassigns ==
    \A cu \in Inputs.users, id \in Inputs.users :
        (/\ Exists(user, cu) /\ Exists(user, id)
         /\ Get(user, cu).is_owner /\ ~Get(user, id).is_owner
         /\ Get(user, id).is_admin
         /\ Get(user, id).company_id = Get(user, cu).company_id)
        => Reassigned(DB, AdminDelete(DB, cu, id), id)

\* C11: the deletion of a principal that is not an owner, by the owner
\* (admin_delete) and by the site administrator (purge_user_data), leaves
\* every team the principal managed to another principal and deletes the
\* principal: afterwards no team has the principal as its manager.
PrincipalPurgeReassigns ==
    /\ OwnerDeletionReassigns
    /\ \A id \in Inputs.users :
          (Exists(user, id) /\ ~Get(user, id).is_owner)
          => Reassigned(DB, SiteAdminUserDelete(DB, id), id)

\* db has no row of company c, and no team_members row of a team or of an
\* employee that company c had in the database before
CompanyGone(before, db, c) ==
    /\ \A x \in db.company : x.id # c
    /\ \A x \in db.user \cup db.team \cup db.employee : x.company_id # c
    /\ \A r \in Rows(db.attendance) \cup Rows(db.advance)
              \cup Rows(db.attendance_note) \cup Rows(db.audit_log) : r.company_id # c
    /\ \A m \in db.team_members :
          /\ \A t \in before.team : t.company_id = c => m.team_id # t.id
          /\ \A e \in before.employee : e.company_id = c => m.employee_id # e.id

\* C12: the site administrator's deletion of the owner of a company commits
\* and leaves no row of the company: its principals, teams, employees,
\* memberships, attendance, advances, notes and audit entries are gone with
\* the company, those of its other principals included.
OwnerPurgeRemovesCompany ==
    \A id \in Inputs.users :
        (Exists(user, id) /\ Get(user, id).is_owner)
        => LET r == SiteAdminUserDelete(DB, id)
           IN /\ r.st = "ok"
              /\ CompanyGone(DB, r.db, Get(user, id).company_id)

\* the owner of the company has been deleted after an entry of a ledger was
\* written: every table is empty
OwnerPurged ==
    /\ last.op = "site_admin_user_delete"
    /\ last.del
    /\ CompanyGone(SetUp, DB, 1)
    /\ DB = EmptyDB

\* C13: purge_company of a company leaves no note, employee, team_members
\* row, audit entry, attendance row, advance, team or principal of the
\* company, and no row of the company itself.
PurgeCompanyComplete ==
    \A c \in {x.id : x \in company} :
        CompanyGone(DB, PurgeCompany(DB, c), c)

\* company 2, which had attendance, an advance and a note, has been purged,
\* and company 1 is there
CompanyPurged ==
    /\ last.op = "site_admin_user_delete"
    /\ last.del
    /\ CompanyGone(TwoCompanies, DB, 2)
    /\ Exists(company, 1)
    /\ \E u \in user : u.company_id = 1

\* the result of the deletion request r handled in one piece on db
Whole(db, r) ==
    IF r.kind = "admin_delete" THEN AdminDelete(db, r.cu, r.target).db
    ELSE SiteAdminUserDelete(db, r.target).db

\* C14: a step of a deletion of a principal or of a company leaves the
\* committed tables as they were (a statement inside the transaction, a
\* rollback, a timeout) or, at its commit, replaces them by the result of all
\* of its statements; when nothing was committed since the request read the
\* tables, that result is the result of the request handled in one piece.
PurgeAtomic ==
    [][\A i \in Requests :
         (req[i].pc = "purge" /\ req'[i] # req[i]) =>
            LET r == req[i]
                f == Finish(RunFrom(DB, r, 1), r)
            IN /\ \/ DB' = DB
                  \/ /\ req'[i].pc = "idle"
                     /\ r.k = Len(Program(r))
                     /\ f.ok
                     /\ DB' = f.db
               /\ (req'[i].pc = "idle" /\ r.k = Len(Program(r)) /\ r.seen = DB)
                     => DB' = Whole(DB, r)]_vars

PurgeHalfDone ==
    \E i \in Requests :
        /\ InTransaction(req[i])
        /\ req[i].k < Len(Program(req[i]))
        /\ req[i].work # DB
        /\ BagCardinality(req[i].work.attendance) < BagCardinality(attendance)

\* the audit entries with one of the actions
Tagged(log, actions) == BagCardinality(BagFilter(log, LAMBDA r : r.action \in actions))

\* C15, as stated: a batch with k accepted entries appends k audit entries,
\* each tagged create_attendance or update_attendance
OneAuditEntryPerMutation ==
    \A cu \in Inputs.users, t \in Inputs.teams, form \in DomainForms :
        LET r == TeamAttendance(DB, cu, t, PastDate, form, "")
        IN r.st = "ok" =>
             /\ BagCardinality(r.db.audit_log)
                  = BagCardinality(audit_log) + Cardinality(r.acc)
             /\ Tagged(r.db.audit_log, {"create_attendance", "update_attendance"})
                  = Tagged(audit_log, {"create_attendance", "update_attendance"})
                      + Cardinality(r.acc)

\* C15, amended: a committed batch with at least one accepted entry appends
\* exactly one audit entry, tagged batch_attendance, of the acting principal
\* and its company, whatever the number of accepted entries; a batch with no
\* accepted entry appends none.
OneAuditEntryPerBatch ==
    \A cu \in Inputs.users, t \in Inputs.teams, form \in DomainForms :
        LET r == TeamAttendance(DB, cu, t, PastDate, form, "")
        IN r.st = "ok" =>
             r.db.audit_log =
                IF r.acc = {} THEN audit_log
                ELSE audit_log (+) SetToBag({[company_id |-> CompanyOf(DB, cu),
                                              operator_id |-> cu,
                                              action |-> "batch_attendance"]})

BatchOfTwoLoggedOnce ==
    /\ last.op = "team_attendance"
    /\ Cardinality(last.acc) = 2
    /\ commits = 1
    /\ BagCardinality(attendance) = 2
    /\ Tagged(audit_log, {"batch_attendance"}) = 1
    /\ Tagged(audit_log, {"create_attendance", "update_attendance"}) = 0

\* the audit entries of which the step removes a copy
AuditRemoved == {r \in DOMAIN audit_log : CopiesIn(r, audit_log') < CopiesIn(r, audit_log)}

\* C16, as stated: a committed audit entry is removed or modified only by
\* the purge of its whole tenant
AuditRemovedOnlyWithTenant ==
    [][\A r \in AuditRemoved : ~Exists(company', r.company_id)]_vars

\* C16, amended: a committed audit entry is never modified, and it is
\* removed only by a step that deletes the principal that authored it: the
\* purge of its tenant, or the deletion of that principal alone, which
\* removes the entries the principal authored and leaves the tenant's others.
AuditRemovedOnlyWithAuthor ==
    [][\A r \in AuditRemoved :
          /\ Exists(user, r.operator_id)
          /\ ~Exists(user', r.operator_id)]_vars

AuthorDeletedTenantKept ==
    /\ last.op = "admin_delete"
    /\ Exists(company, 1)
    /\ ~Exists(user, 2)
    /\ Tagged(audit_log, {"delete_admin"}) = 1
    /\ \A r \in DOMAIN audit_log : r.operator_id # 2
    /\ \E r \in DOMAIN SetUp.audit_log : r.operator_id = 2

\* C17: a step that changes the attendance records, the advances or the
\* attendance notes adds an audit entry.
LedgerChangeIsAudited ==
    [][(attendance' # attendance \/ advance' # advance
          \/ attendance_note' # attendance_note)
         => \E r \in DOMAIN audit_log' :
               CopiesIn(r, audit_log') > CopiesIn(r, audit_log)]_vars

(***************************************************************************)
(* Properties of the batch.                                                *)
(***************************************************************************)
\* the note texts submitted with a batch
NoteTexts == {"", "n"}

\* the notes of (company, team, date)
NotesAt(notes, c, t, d) ==
    BagFilter(notes, LAMBDA r : r.company_id = c /\ r.team_id = t /\ r.note_date = d)

\* C18: a batch of day counts of the domain for a team and a date commits;
\* an entry within the ceiling is written and an entry over it is reported
\* and its employee's rows are left as they were, each as if it were the
\* only entry of the batch; and after the batch the team has exactly one
\* note for the date, with the submitted text, whatever was accepted.
BatchPartialSuccess ==
    \A cu \in Inputs.users, t \in Inputs.teams, form \in DomainForms,
       note \in NoteTexts :
        LET r == TeamAttendance(DB, cu, t, PastDate, form, note)
            c == CompanyOf(DB, cu)
            written == {m.id : m \in {x \in MembersOf(DB, t) : HasValue(form, x.id)}}
        IN AttendanceGuards(DB, cu, t, PastDate) = "ok" =>
             /\ r.st = "ok"
             /\ \A e \in written :
                   LET alone == TeamAttendance(DB, cu, t, PastDate, e :> form[e], note)
                   IN /\ e \in r.acc <=> OtherTeams(attendance, e, t, PastDate) + form[e] <= OneDay
                      /\ e \in r.rej <=> e \notin r.acc
                      /\ e \in r.acc <=> e \in alone.acc
                      /\ RowsOfEmployee(r.db.attendance, e)
                           = RowsOfEmployee(alone.db.attendance, e)
                      /\ e \in r.rej =>
                           RowsOfEmployee(r.db.attendance, e) = RowsOfEmployee(attendance, e)
             /\ \A e \in {x.id : x \in employee} \ written :
                   RowsOfEmployee(r.db.attendance, e) = RowsOfEmployee(attendance, e)
             /\ BagCardinality(NotesAt(r.db.attendance_note, c, t, PastDate)) = 1
             /\ \A n \in DOMAIN NotesAt(r.db.attendance_note, c, t, PastDate) :
                   n.note = note /\ n.created_by = cu
             /\ \A n \in DOMAIN attendance_note :
                   (n.team_id # t \/ n.note_date # PastDate \/ n.company_id # c)
                     => CopiesIn(n, r.db.attendance_note) = CopiesIn(n, attendance_note)

\* a batch for team 1 was committed with the entry of employee 2 accepted and
\* the entry of employee 1 rejected, and a batch with nothing accepted would
\* replace the team's note
PartialBatchCommitted ==
    /\ last.op = "team_attendance"
    /\ last.acc = {2}
    /\ last.rej = {1}
    /\ BagCardinality(RowsOfEmployee(attendance, 2)) = 1
    /\ BagCardinality(NotesAt(attendance_note, 1, 1, PastDate)) = 1
    /\ LET r == TeamAttendance(DB, 1, 1, PastDate, 1 :> OneDay, "n")
       IN /\ r.st = "ok" /\ r.acc = {} /\ r.rej = {1}
          /\ \A n \in DOMAIN NotesAt(r.db.attendance_note, 1, 1, PastDate) : n.note = "n"

\* dates after Today: the next day, the next month, an earlier month and
\* day of the next year
FutureDates == {<<2024, 3, 2>>, FutureDate, <<2025, 1, 1>>}

\* C19: an attendance batch or an advance dated after today leaves every
\* table as it was, whatever the principal, the team, the employee, the form
\* and the note; for a principal that passes the checks made before the date
\* is read, the request ends at the date check.
FutureDateRefused ==
    \A cu \in Inputs.users, d \in FutureDates :
        /\ \A t \in Inputs.teams, form \in Inputs.forms, note \in NoteTexts :
              LET r == TeamAttendance(DB, cu, t, d, form, note)
              IN /\ r.db = DB
                 /\ r.acc = {}
                 /\ AttendanceGuards(DB, cu, t, PastDate) = "ok" => r.st = "future"
        /\ \A e \in Inputs.employees, a \in Inputs.amounts :
              LET r == Advances(DB, cu, e, a, d, "")
              IN /\ r.db = DB
                 /\ Advances(DB, cu, e, a, PastDate, "").st = "ok" => r.st = "future"

\* the ledgers hold rows, and a batch and an advance that are accepted for a
\* past date end at the date check for a future one
FutureDateMet ==
    /\ BagCardinality(attendance) > 0
    /\ BagCardinality(advance) > 0
    /\ TeamAttendance(DB, 1, 1, PastDate, 1 :> 2, "n").st = "ok"
    /\ TeamAttendance(DB, 1, 1, FutureDate, 1 :> 2, "n").st = "future"
    /\ Advances(DB, 1, 1, 300, PastDate, "").st = "ok"
    /\ Advances(DB, 1, 1, 300, FutureDate, "").st = "future"

\* C20: every recorded day count is 0, half a day or one day; in a batch,
\* an entry whose value is none of these is not written, and the entries
\* whose value is one of these and within the ceiling are committed.
OutOfDomainEntryRejectedAlone ==
    /\ \A r \in Rows(attendance) : r.day_count \in DayCountDomain
    /\ \A cu \in Inputs.users, t \in Inputs.teams, form \in Inputs.forms :
          LET r == TeamAttendance(DB, cu, t, PastDate, form, "")
              written == {m.id : m \in {x \in MembersOf(DB, t) : HasValue(form, x.id)}}
          IN AttendanceGuards(DB, cu, t, PastDate) = "ok" =>
               \A e \in written :
                  IF form[e] \notin DayCountDomain
                  THEN RowsOfEmployee(r.db.attendance, e) = RowsOfEmployee(attendance, e)
                  ELSE OtherTeams(attendance, e, t, PastDate) + form[e] <= OneDay
                         => /\ r.st = "ok"
                            /\ e \in r.acc
                            /\ \E q \in Rows(r.db.attendance) :
                                  /\ q.employee_id = e /\ q.team_id = t
                                  /\ q.work_date = PastDate /\ q.day_count = form[e]

(***************************************************************************)
(* Properties of the advances.                                             *)
(***************************************************************************)
\* the amounts of an advance: float(request.form["amount"]) of a negative
\* number, of zero and of the amount of the requests
AdvanceAmounts == {-50, 0, 300}

\* C21: an advance dated today or earlier, for an employee of the company of
\* an administrator, whatever its amount and whatever advances exist, adds
\* one copy of the new row to the advances and one create_advance entry to
\* the audit trail, and changes nothing else.
AdvanceAlwaysInserted ==
    \A cu \in Inputs.users, e \in Inputs.employees, a \in AdvanceAmounts,
       d \in {PastDate, Today} :
        (/\ LoggedIn(DB, cu)
         /\ Get(user, cu).is_admin
         /\ Exists(employee, e)
         /\ Get(employee, e).company_id = Get(user, cu).company_id)
        => LET r == Advances(DB, cu, e, a, d, "")
               item == [company_id |-> Get(user, cu).company_id, employee_id |-> e,
                        amount |-> a, advance_date |-> d, note |-> "",
                        created_by |-> cu]
               entry == [company_id |-> Get(user, cu).company_id, operator_id |-> cu,
                         action |-> "create_advance"]
           IN /\ r.st = "ok"
              /\ r.db.advance = advance (+) SetToBag({item})
              /\ BagCardinality(r.db.advance) = BagCardinality(advance) + 1
              /\ r.db.audit_log = audit_log (+) SetToBag({entry})
              /\ r.db = [DB EXCEPT !.advance = r.db.advance,
                                   !.audit_log = r.db.audit_log]

\* the same advance was recorded twice and both rows are kept
AdvanceRecordedTwice ==
    /\ last.op = "advances"
    /\ commits = 2
    /\ \E r \in DOMAIN advance : advance[r] = 2
    /\ Tagged(audit_log, {"create_advance"}) = 2

(***************************************************************************)
(* Properties of the scope check.                                          *)
(***************************************************************************)
\* the rows with the id exist and are of another company than cu's
OfAnotherCompany(rows, id, cu) ==
    /\ Exists(rows, id)
    /\ Get(rows, id).company_id # Get(user, cu).company_id

\* the request that ended as r was refused and left every table as it was
Refused(r) == r.st # "ok" /\ r.db = DB

\* C22: a request of an administrator that names a team or an employee of
\* another company is refused and leaves every table as it was.
ScopeDenialIsNoOp ==
    \A cu \in {u.id : u \in {x \in user : x.is_admin}} :
      LET I == TenantInputs
      IN /\ \A t \in I.teams, e \in I.employees :
               (OfAnotherCompany(team, t, cu) \/ OfAnotherCompany(employee, e, cu)) =>
                  /\ Refused(TeamDetailExisting(DB, cu, t, e))
                  /\ Refused(TeamEmployeeDelete(DB, cu, t, e))
                  /\ \A name \in I.raw_names, sal \in I.salaries :
                        Refused(TeamEmployeeUpdate(DB, cu, t, e, <<name>>, sal))
         /\ \A t \in I.teams :
               OfAnotherCompany(team, t, cu) =>
                  /\ \A name \in I.raw_names, sal \in I.salaries, temp \in BOOLEAN :
                        Refused(TeamDetailNew(DB, cu, t, name, sal, temp))
                  /\ \A form \in I.forms, note \in NoteTexts :
                        Refused(TeamAttendance(DB, cu, t, PastDate, form, note))
         /\ \A e \in I.employees, a \in I.amounts :
               OfAnotherCompany(employee, e, cu) =>
                  Refused(Advances(DB, cu, e, a, PastDate, ""))

\* both companies have an administrator, a team and an employee after a
\* committed request, and the owner of company 1 is denied on the team and
\* the employee of company 2 that its own owner may write
ScopeDenialMet ==
    /\ commits > 0
    /\ OfAnotherCompany(team, 2, 1)
    /\ OfAnotherCompany(employee, 2, 1)
    /\ TeamAttendance(DB, 1, 2, PastDate, 2 :> 0, "").st = "denied"
    /\ TeamAttendance(DB, 3, 2, PastDate, 2 :> 0, "").st = "ok"
    /\ Advances(DB, 1, 2, 300, PastDate, "").st = "denied"
    /\ Advances(DB, 3, 2, 300, PastDate, "").st = "ok"
    /\ TeamDetailExisting(DB, 1, 1, 2).st = "denied"

(***************************************************************************)
(* Properties of the reports.                                              *)
(***************************************************************************)
\* the attendance records of employee e dated in month m of year y
AttendanceIn(att, e, y, m) ==
    BagFilter(att, LAMBDA r : r.employee_id = e /\ r.work_date[1] = y
                                               /\ r.work_date[2] = m)

\* the advances of employee e dated in month m of year y
AdvancesIn(adv, e, y, m) ==
    BagFilter(adv, LAMBDA r : r.employee_id = e /\ r.advance_date[1] = y
                                               /\ r.advance_date[2] = m)

\* quarter days counted record by record: a half day is two, a day is four
QuartersOf(B) ==
    2 * BagCardinality(BagFilter(B, LAMBDA r : r.day_count = 2))
      + OneDay * BagCardinality(BagFilter(B, LAMBDA r : r.day_count = OneDay))

\* whole units counted amount by amount
UnitsOf(B) ==
    LET A == {r.amount : r \in DOMAIN B}
    IN SumOver(A, [a \in A |-> a * BagCardinality(BagFilter(B, LAMBDA r : r.amount = a))])

ReportYears == {2023, 2024}

ReportMonths == {1, 2, 3}

\* C23: for every employee, year and month, the days of the month stat are
\* the day counts of exactly the employee's attendance records dated in that
\* month of that year, whatever their team, and its advances are the amounts
\* of exactly the employee's advances dated in it; both are 0 when there is
\* no such record.
StatReconciles ==
    \A e \in {x.id : x \in employee}, y \in ReportYears, m \in ReportMonths :
        LET stat == CalculateMonthStat(DB, e, y, m)
        IN /\ stat.days = QuartersOf(AttendanceIn(attendance, e, y, m))
           /\ stat.advances = 100 * UnitsOf(AdvancesIn(advance, e, y, m))
           /\ AttendanceIn(attendance, e, y, m) = EmptyBag => stat.days = 0
           /\ AdvancesIn(advance, e, y, m) = EmptyBag => stat.advances = 0

\* employee 1 has records in February 2024, in January 2024 and in
\* February 2023, in two teams, and employee 3 has none
RecordsInThreeMonths ==
    /\ AttendanceIn(attendance, 1, 2024, 1) # EmptyBag
    /\ AttendanceIn(attendance, 1, 2023, 2) # EmptyBag
    /\ \E r \in Rows(attendance) : r.employee_id = 1 /\ r.team_id = 2
    /\ CalculateMonthStat(DB, 1, 2024, 2).days = 10 * OneDay
    /\ CalculateMonthStat(DB, 1, 2024, 2).advances = 30000
    /\ CalculateMonthStat(DB, 1, 2024, 1).days > 0
    /\ CalculateMonthStat(DB, 1, 2023, 2).days > 0
    /\ CalculateMonthStat(DB, 1, 2024, 3).days = 0
    /\ CalculateMonthStat(DB, 3, 2024, 2).days = 0
    /\ CalculateMonthStat(DB, 3, 2024, 2).advances = 0

\* C24: for every employee and month, the gross pay of the month stat is a
\* whole number of cents within half a cent of days x daily salary, equal to
\* it when that is a whole number of cents, and the remaining pay is the
\* gross pay less the advances, negative when the advances are larger.
PayFormulas ==
    \A e \in {x.id : x \in employee}, y \in ReportYears, m \in ReportMonths :
        LET stat == CalculateMonthStat(DB, e, y, m)
            exact == stat.days * Get(employee, e).daily_salary
        IN /\ 4 * stat.gross - exact \in -2 .. 2
           /\ exact % 4 = 0 => 4 * stat.gross = exact
           /\ stat.remaining = stat.gross - stat.advances
           /\ stat.remaining < 0 <=> stat.advances > stat.gross

\* employee 1, at 200.00 a day with ten days and 300 advanced in the month,
\* has (10, 300, 2000, 1700); employee 2, at 33.35 a day with half a day and
\* 1000 advanced, has a gross pay of 16.68 and a negative remaining pay
PayExample ==
    /\ Get(employee, 1).daily_salary = 20000
    /\ CalculateMonthStat(DB, 1, 2024, 2)
         = [days |-> 10 * OneDay, advances |-> 30000, gross |-> 200000,
            remaining |-> 170000]
    /\ Get(employee, 2).daily_salary = 3335
    /\ CalculateMonthStat(DB, 2, 2024, 2)
         = [days |-> 2, advances |-> 100000, gross |-> 1668, remaining |-> -98332]

\* the months in which company c has an attendance record or an advance
MonthsWithRecords(c) ==
    {k \in ReportYears \X ReportMonths :
        \/ \E r \in Rows(attendance) :
              r.company_id = c /\ r.work_date[1] = k[1] /\ r.work_date[2] = k[2]
        \/ \E r \in Rows(advance) :
              r.company_id = c /\ r.advance_date[1] = k[1] /\ r.advance_date[2] = k[2]}

\* the name filters of a report: none, a name that exists, a name that does not
NameFilters == {"", "x", "z"}

\* C25: the periods of a report over all months are the months in which the
\* caller's company has an attendance record or an advance, whatever the
\* name filter, and the requested month alone when it has none; the periods
\* of a report of one month are the requested month alone.
PeriodsOfReport ==
    \A cu \in {u.id : u \in user}, k \in ReportYears \X ReportMonths, q \in NameFilters :
        LET c == Get(user, cu).company_id
            all == Payroll(DB, cu, k[1], k[2], "all", q)
            one == Payroll(DB, cu, k[1], k[2], "month", q)
        IN /\ all.st = "ok" /\ one.st = "ok"
           /\ all.months = IF MonthsWithRecords(c) = {} THEN {k} ELSE MonthsWithRecords(c)
           /\ one.months = {k}
           /\ MonthKeys(DB, c, k[1], k[2], "all") = all.months
           /\ MonthKeys(DB, c, k[1], k[2], "month") = one.months

\* company 1 has records in two months, company 2 in one other month, and
\* each report has the months of its company only
PeriodsPerCompany ==
    /\ Payroll(DB, 1, 2024, 3, "all", "z").months = {<<2023, 2>>, <<2024, 2>>}
    /\ Payroll(DB, 2, 2024, 3, "all", "").months = {<<2024, 1>>}
    /\ Payroll(DB, 2, 2024, 3, "month", "").months = {<<2024, 3>>}
    /\ Cardinality(MonthsWithRecords(1)) = 2
    /\ BagCardinality(BagFilter(attendance, LAMBDA r : r.company_id = 1)) > 2

\* the advances of employee e
AdvancesOfEmployee(adv, e) == BagFilter(adv, LAMBDA r : r.employee_id = e)

\* C26: a report has one row for each employee of the caller's company that
\* passes the name filter; the row has one bucket for each period of the
\* report, holding the days of the employee's month stat of the period, and
\* its totals are the sums of the days, the advances, the gross pay and the
\* remaining pay of the month stats over the periods of the report; over all
\* months the total days and advances are those of all the employee's
\* records.
ReportTotals ==
    \A cu \in {u.id : u \in user}, k \in PayrollInputs.months,
       scope \in {"month", "all"}, q \in NameFilters :
        LET c == Get(user, cu).company_id
            rep == Payroll(DB, cu, k[1], k[2], scope, q)
            shown == {e \in employee : e.company_id = c /\ NameLike(e.name, q)}
        IN /\ Cardinality(rep.rows) = Cardinality(shown)
           /\ \A e \in shown :
                 \E row \in rep.rows :
                    LET stat == [p \in rep.months |->
                                   CalculateMonthStat(DB, e.id, p[1], p[2])]
                    IN /\ row.name = e.name
                       /\ DOMAIN row.month_days = rep.months
                       /\ \A p \in rep.months : row.month_days[p] = stat[p].days
                       /\ row.total_days = SumOver(rep.months, row.month_days)
                       /\ row.total_advances
                            = SumOver(rep.months, [p \in rep.months |-> stat[p].advances])
                       /\ row.total_gross
                            = SumOver(rep.months, [p \in rep.months |-> stat[p].gross])
                       /\ row.total_remain
                            = SumOver(rep.months, [p \in rep.months |-> stat[p].remaining])
                       /\ row.total_remain = row.total_gross - row.total_advances
                       /\ scope = "all" =>
                            /\ row.total_days
                                 = QuartersOf(RowsOfEmployee(attendance, e.id))
                            /\ row.total_advances
                                 = 100 * UnitsOf(AdvancesOfEmployee(advance, e.id))

\* company 2 has records in January and February 2024 only: the report over
\* all months has two buckets of half a day and a total of one day
TwoBuckets ==
    /\ MonthsWithRecords(2) = {<<2024, 1>>, <<2024, 2>>}
    /\ \E row \in Payroll(DB, 2, 2024, 3, "all", "").rows :
          /\ row.month_days = (<<2024, 1>> :> 2) @@ (<<2024, 2>> :> 2)
          /\ row.total_days = OneDay
          /\ row.total_gross = 3332

\* the tables of the ledgers, the notes, the employees, the teams and the
\* memberships
Ledgers(db) ==
    [attendance |-> db.attendance, advance |-> db.advance,
     attendance_note |-> db.attendance_note, employee |-> db.employee,
     team |-> db.team, team_members |-> db.team_members]

\* C27: in every state, an export, and an export after it, for any
\* principal, month, scope and name filter, leave the attendance records,
\* the advances, the notes, the employees, the teams and the memberships as
\* they are, and the month stat and the payroll view return figures and no
\* table; a step that commits an export changes none of these tables.
ReportsReadOnly ==
    /\ [](\A cu \in PayrollInputs.users, k \in PayrollInputs.months,
             scope \in {"month", "all"}, q \in NameFilters :
             LET once == ExportExcel(DB, cu, k[1], k[2], scope, q)
                 twice == ExportExcel(once.db, cu, k[1], k[2], scope, q)
                 view == Payroll(DB, cu, k[1], k[2], scope, q)
             IN /\ Ledgers(once.db) = Ledgers(DB)
                /\ Ledgers(twice.db) = Ledgers(DB)
                /\ DOMAIN view = {"st", "rows", "months", "notes"}
                /\ \A e \in {x.id : x \in employee} :
                      DOMAIN CalculateMonthStat(DB, e, k[1], k[2])
                        = {"days", "advances", "gross", "remaining"})
    /\ [][(last'.op = "export_excel" /\ commits' = commits + 1)
            => Ledgers(DB') = Ledgers(DB)]_vars

\* the owner has exported twice and the ledgers are those of the fixture
ExportedTwice ==
    /\ last.op = "export_excel"
    /\ commits = 2
    /\ Tagged(audit_log, {"export_excel"}) = 2
    /\ Ledgers(DB) = Ledgers(PayrollSetUp)
    /\ BagCardinality(attendance) = 10

(***************************************************************************)
(* Properties of the clearing of attendance.                               *)
(***************************************************************************)
\* the employees selected by a clearing request of a principal of company c:
\* those named and the members of the named teams that are teams of c
Selected(c, team_ids, employee_ids) ==
    employee_ids
      \cup {m.employee_id : m \in {x \in team_members :
               x.team_id \in team_ids /\ MemberOfCompany(DB, x, c)}}

\* C28: a clearing request of an administrator that selects at least one
\* employee deletes the attendance records of the administrator's company
\* whose employee is selected and no other, reports their number, adds one
\* audit entry and changes no other table; afterwards a selected employee of
\* the company has no attendance record.  A request that selects none
\* changes nothing.
ClearingIsExact ==
    \A cu \in {u.id : u \in {x \in user : x.is_admin}},
       ts \in PayrollInputs.team_sets, es \in PayrollInputs.employee_sets :
        LET c == Get(user, cu).company_id
            S == Selected(c, ts, es)
            r == Employees(DB, cu, ts, es)
        IN IF S = {} THEN r.st # "ok" /\ r.db = DB
           ELSE /\ r.st = "ok"
                /\ \A row \in DOMAIN attendance :
                      CopiesIn(row, r.db.attendance)
                        = IF row.company_id = c /\ row.employee_id \in S
                          THEN 0 ELSE CopiesIn(row, attendance)
                /\ DOMAIN r.db.attendance \subseteq DOMAIN attendance
                /\ r.n = BagCardinality(attendance) - BagCardinality(r.db.attendance)
                /\ r.n = BagCardinality(BagFilter(attendance,
                            LAMBDA row : row.company_id = c /\ row.employee_id \in S))
                /\ r.db.audit_log
                     = audit_log (+) SetToBag({[company_id |-> c, operator_id |-> cu,
                                                action |-> "clear_attendance"]})
                /\ r.db = [DB EXCEPT !.attendance = r.db.attendance,
                                     !.audit_log = r.db.audit_log]
                /\ \A e \in {x \in employee : x.id \in S /\ x.company_id = c} :
                      RowsOfEmployee(r.db.attendance, e.id) = EmptyBag

\* the attendance of employee 1 was cleared by a request that deleted
\* records; the advance of employee 1 and the attendance of the other
\* company are still there
ClearedOneCompany ==
    /\ last.op = "employees"
    /\ last.del
    /\ RowsOfEmployee(attendance, 1) = EmptyBag
    /\ RowsOfEmployee(attendance, 3) # EmptyBag
    /\ AdvancesOfEmployee(advance, 1) # EmptyBag
    /\ Employees(DB, 1, {}, 1 .. 3).db.attendance = attendance

(***************************************************************************)
(* Properties of the names.                                                *)
(***************************************************************************)
\* no two employees of a company have the same name, no two teams of a
\* company have the same name, no two principals of a company have the same
\* username, and no two companies have the same name
UniqueNames(db) ==
    /\ \A a \in db.employee, b \in db.employee :
          (a.company_id = b.company_id /\ a.name = b.name) => a = b
    /\ \A a \in db.team, b \in db.team :
          (a.company_id = b.company_id /\ a.name = b.name) => a = b
    /\ \A a \in db.user, b \in db.user :
          (a.company_id = b.company_id /\ a.username = b.username) => a = b
    /\ \A a \in db.company, b \in db.company : a.name = b.name => a = b

\* the request that ended as r was refused for its name and changed nothing
Duplicate(r) == r.st = "duplicate" /\ r.db = DB

\* C29: in every state the names are unique, and a request that would give
\* an employee, a team, a principal or a company a name that another of the
\* same company (another company, for a company) has is refused for the name
\* and changes nothing.
NamesAreUnique ==
    /\ UniqueNames(DB)
    /\ \A cn \in {c.name : c \in company}, un \in TenantInputs.usernames :
          Duplicate(Register(DB, cn, un))
    /\ \A u \in user, d \in user :
          (d.company_id = u.company_id /\ d.id # u.id)
            => Duplicate(SiteAdminUserUpdate(DB, u.id, d.username))
    /\ \A cu \in {u \in user : u.is_owner}, d \in user :
          d.company_id = cu.company_id => Duplicate(Admins(DB, cu.id, d.username))
    /\ \A cu \in {u \in user : u.is_admin} :
          /\ \A t \in team, m \in TenantInputs.managers :
                t.company_id = cu.company_id => Duplicate(Teams(DB, cu.id, t.name, m))
          /\ \A t \in team, e \in employee, d \in employee, sal \in TenantInputs.salaries :
                (/\ t.company_id = cu.company_id /\ e.company_id = cu.company_id
                 /\ d.company_id = cu.company_id /\ d.id # e.id)
                  => Duplicate(TeamEmployeeUpdate(DB, cu.id, t.id, e.id, d.name, sal))
          /\ \A t \in team, raw \in TenantInputs.raw_names,
                sal \in TenantInputs.salaries, temp \in BOOLEAN :
                t.company_id = cu.company_id =>
                   LET r == TeamDetailNew(DB, cu.id, t.id, raw, sal, temp)
                   IN /\ (\E d \in employee :
                            /\ d.company_id = cu.company_id
                            /\ d.name = EmployeeName(raw, temp, t.name)) => Duplicate(r)
                      /\ r.st = "ok" =>
                            /\ UniqueNames(r.db)
                            /\ TeamDetailNew(r.db, cu.id, t.id, raw, sal, temp).st
                                 = "duplicate"

\* company 1 has a second team and a second employee; their names are
\* refused in company 1 and the team's name is accepted in company 2
DuplicateNameMet ==
    /\ \E t \in team : t.company_id = 1 /\ t.name = "t"
    /\ \E e \in employee : e.company_id = 1 /\ e.name = <<"y">>
    /\ Teams(DB, 1, "t", 1).st = "duplicate"
    /\ Teams(DB, 3, "t", 3).st = "ok"
    /\ TeamDetailNew(DB, 1, 1, "y", 200, FALSE).st = "duplicate"
    /\ TeamEmployeeUpdate(DB, 1, 1, 1, <<"y">>, 200).st = "duplicate"
    /\ Admins(DB, 1, "v").st = "duplicate"
    /\ Register(DB, "B", "u").st = "duplicate"
    /\ SiteAdminUserUpdate(DB, 1, "v").st = "duplicate"

(***************************************************************************)
(* Properties of the membership.                                           *)
(***************************************************************************)
\* the attendance rows that db has in another number than the state
ChangedRows(db) ==
    {r \in Rows(DB.attendance) \cup Rows(db.attendance) :
        CopiesIn(r, db.attendance) # CopiesIn(r, DB.attendance)}

\* the entries of the form that are for members of the team
OfMembers(form, team_id) ==
    [e \in {x \in DOMAIN form : IsMember(DB, team_id, x)} |-> form[e]]

\* C30: a batch creates or updates an attendance record only for an employee
\* who is a member of the team at that time, the employee, the team and the
\* record being of the caller's company; the entries for employees who are
\* not members are ignored, the batch ending as it does without them.
MembersOnlyWritten ==
    /\ \A m \in team_members, t \in team, e \in employee :
          (m.team_id = t.id /\ m.employee_id = e.id) => t.company_id = e.company_id
    /\ \A cu \in PayrollInputs.users, t \in PayrollInputs.teams,
          d \in PayrollInputs.dates, form \in PayrollInputs.forms :
          LET r == TeamAttendance(DB, cu, t, d, form, "")
              r0 == TeamAttendance(DB, cu, t, d, OfMembers(form, t), "")
          IN /\ r = r0
             /\ \A row \in ChangedRows(r.db) :
                   /\ row.team_id = t
                   /\ row.work_date = d
                   /\ row.employee_id \in DOMAIN form
                   /\ IsMember(DB, t, row.employee_id)
                   /\ Get(employee, row.employee_id).company_id = CompanyOf(DB, cu)
                   /\ Get(team, t).company_id = CompanyOf(DB, cu)
                   /\ row.company_id = CompanyOf(DB, cu)

\* a batch for team 2 has written a record of its member, employee 1; the
\* state has no record of employee 2 in team 2, and an entry for employee 2
\* or for the other company's employee is ignored in a batch that commits
NonMemberIgnored ==
    /\ last.op = "team_attendance"
    /\ last.acc = {1}
    /\ \E r \in Rows(attendance) : r.team_id = 2 /\ r.employee_id = 1
    /\ ~IsMember(DB, 2, 2)
    /\ \A r \in Rows(attendance) : r.team_id = 2 => r.employee_id = 1
    /\ LET r == TeamAttendance(DB, 1, 2, <<2024, 2, 11>>, (1 :> OneDay) @@ (2 :> 2), "")
       IN r.st = "ok" /\ r.acc = {1}
    /\ LET r == TeamAttendance(DB, 1, 2, <<2024, 2, 11>>, 3 :> 2, "")
       IN r.st = "ok" /\ r.acc = {} /\ r.db.attendance = attendance

(***************************************************************************)
(* Properties of the owner.                                                *)
(***************************************************************************)
\* the owners that company c has in db
OwnersOf(db, c) == {u \in db.user : u.company_id = c /\ u.is_owner}

\* C31: every company has exactly one owner.  A registration that commits
\* adds the company and its owner and no other principal, an administrator
\* is created without the flag of the owner, the owner's deletion of the
\* owner is refused and changes nothing, and the site administrator's
\* deletion of an owner leaves no row of the company.  In every step no
\* principal changes its flag or its company, a new owner comes with a new
\* company from a registration, and an owner who is removed is removed by
\* the site administrator's deletion with every row of the company.
SingleOwner ==
    /\ [](/\ \A c \in company : Cardinality(OwnersOf(DB, c.id)) = 1
          /\ \A cn \in TenantInputs.company_names, un \in TenantInputs.usernames :
                LET r == Register(DB, cn, un)
                IN r.st = "ok" =>
                     \E c \in r.db.company \ company, o \in r.db.user \ user :
                        /\ r.db.company = company \cup {c}
                        /\ r.db.user = user \cup {o}
                        /\ o.is_owner /\ o.company_id = c.id
                        /\ ~Exists(company, c.id) /\ ~Exists(user, o.id)
          /\ \A cu \in TenantInputs.users, un \in TenantInputs.usernames :
                LET r == Admins(DB, cu, un)
                IN r.st = "ok" =>
                     \E a \in r.db.user \ user :
                        /\ r.db.user = user \cup {a}
                        /\ ~a.is_owner /\ a.is_admin
                        /\ a.company_id = CompanyOf(DB, cu)
                        /\ r.db.company = company
          /\ \A cu \in TenantInputs.users, o \in {u \in user : u.is_owner} :
                LET r == AdminDelete(DB, cu, o.id)
                IN /\ r.st # "ok" /\ r.db = DB
                   /\ (Exists(user, cu) /\ Get(user, cu) = o) => r.st = "owner"
          /\ \A o \in {u \in user : u.is_owner} :
                LET r == SiteAdminUserDelete(DB, o.id)
                IN r.st = "ok" /\ CompanyGone(DB, r.db, o.company_id))
    /\ [][/\ \A u \in user, v \in user' :
                u.id = v.id => (u.is_owner = v.is_owner /\ u.company_id = v.company_id)
          /\ \A v \in user' :
                (v.is_owner /\ ~Exists(user, v.id))
                  => /\ last'.op = "register"
                     /\ ~Exists(company, v.company_id)
                     /\ Exists(company', v.company_id)
          /\ \A u \in user :
                (u.is_owner /\ ~Exists(user', u.id))
                  => /\ last'.op = "site_admin_user_delete"
                     /\ CompanyGone(DB, DB', u.company_id)]_vars

\* the owner of company 1 was deleted and company 1 with it, a company was
\* registered after that, and each company has the owner it was registered
\* with; the owner of company 2 is refused the deletion of the owner
OwnerRemovedWithCompany ==
    /\ last.op = "register"
    /\ commits = 2
    /\ CompanyGone(TwoCompanies, DB, 1)
    /\ \E c \in company : c.name = "C" /\ Cardinality(OwnersOf(DB, c.id)) = 1
    /\ Cardinality(company) = 2
    /\ AdminDelete(DB, 3, 3).st = "owner"
    /\ Admins(DB, 3, "v").st = "ok"

(***************************************************************************)
(* Properties of the manager of a team.                                    *)
(***************************************************************************)
\* principal id is there in db and is of company c
PrincipalOf(db, id, c) == \E u \in db.user : u.id = id /\ u.company_id = c

\* C32: the manager of every team is a principal there is, of the company
\* of the team; the creation of a team with a manager id that names a
\* principal of another company, or no principal, is refused and creates
\* no team.
TeamManagerScoped ==
    /\ \A t \in team : PrincipalOf(DB, t.manager_id, t.company_id)
    /\ \A cu \in {u \in user : u.is_admin}, name \in TenantInputs.team_names,
          m \in TenantInputs.managers :
          ~PrincipalOf(DB, m, cu.company_id)
            => LET r == Teams(DB, cu.id, name, m)
               IN r.st # "ok" /\ r.db.team = team

(***************************************************************************)
(* Properties of the purges on the other companies.                        *)
(***************************************************************************)
\* the rows that are of no company of the set cs: those of the other
\* companies, in the nine tables
ForeignOf(db, cs) ==
    [company |-> {x \in db.company : x.id \notin cs},
     user |-> {x \in db.user : x.company_id \notin cs},
     team |-> {x \in db.team : x.company_id \notin cs},
     employee |-> {x \in db.employee : x.company_id \notin cs},
     team_members |-> {m \in db.team_members :
                          \/ \E t \in DB.team : t.id = m.team_id /\ t.company_id \notin cs
                          \/ \E e \in DB.employee :
                                e.id = m.employee_id /\ e.company_id \notin cs},
     attendance |-> BagFilter(db.attendance, LAMBDA r : r.company_id \notin cs),
     attendance_note |-> BagFilter(db.attendance_note, LAMBDA r : r.company_id \notin cs),
     advance |-> BagFilter(db.advance, LAMBDA r : r.company_id \notin cs),
     audit_log |-> BagFilter(db.audit_log, LAMBDA r : r.company_id \notin cs)]

\* db has the rows of the companies other than c that the state has
OthersKept(db, c) == ForeignOf(db, {c}) = ForeignOf(DB, {c})

\* C33: purge_company of a company, purge_user_data of a principal of the
\* company, with the flush and the commit of the request that calls it, and
\* purge_employees of employees of the company leave every row of every
\* other company as it is: company, principals, teams, employees,
\* memberships, attendance, advances, notes and audit entries.
PurgeFrame ==
    \A c \in company :
       /\ OthersKept(PurgeCompany(DB, c.id), c.id)
       /\ \A u \in {x \in user : x.company_id = c.id} :
             /\ OthersKept(PurgeUserData(DB, u).db, c.id)
             /\ OthersKept(SiteAdminUserDelete(DB, u.id).db, c.id)
       /\ \A es \in SUBSET {e.id : e \in {x \in employee : x.company_id = c.id}} :
             OthersKept(PurgeEmployees(DB, es), c.id)

\* company 1 has been purged with its owner, and company 2 has the rows it
\* had: its owner, team, employee, membership, attendance, advance, note and
\* audit entries
OtherCompanyKept ==
    /\ last.op = "site_admin_user_delete"
    /\ last.del
    /\ ~Exists(company, 1)
    /\ \A u \in user : u.company_id # 1
    /\ ForeignOf(DB, {1}) = ForeignOf(TwoCompanies, {1})
    /\ DB = [k \in DOMAIN DB |-> ForeignOf(TwoCompanies, {1})[k]]
    /\ attendance # EmptyBag /\ advance # EmptyBag /\ attendance_note # EmptyBag

====
